---- MODULE Spec2Model ----
(***************************************************************************)
(* Model of the stream recorder's Schedule Engine (app/scheduler.py), its  *)
(* Browser Session registry (app/services/browser_service.py) and the      *)
(* detector's event sink (app/models/stream_detector/*_mixin.py).          *)
(*                                                                         *)
(* Time is an integer count of minutes since 00:00 of day 0.  A datetime   *)
(* is such a count; its date is t \div DayLen and its time of day is       *)
(* t % DayLen.  A daily schedule keeps its "HH:MM" strings; the model      *)
(* writes the string "HH:MM" as the number HH * 100 + MM and parses it the *)
(* way the code does (split at the colon, int of both halves).             *)
(***************************************************************************)
EXTENDS Integers, Sequences, FiniteSets, TLC

VARIABLES
    clock,          \* what datetime.now() returns
    schedules,      \* Scheduler.schedules: the list of schedule records
    nextId,         \* source of the ids add_schedule draws from time.time()
    workers,        \* the check threads _perform_check has started and that run
    ticked,         \* a pass of the runner loop has read the current minute
    spawnInfo,      \* history, per id: the window of the last _perform_check call and
                    \* how many calls that window has had since the last update_schedule
    persisted,      \* the JSON array in SCHEDULES_FILE
    startFailed,    \* history, per id: how many _perform_check calls the window had
                    \* when a check thread last failed to start its session
    dlInfo,         \* history, per id: the window of the last status change into
                    \* download_started and how many that window has had in a row
    active_browsers,    \* BrowserService.active_browsers: the registered browser ids
    live,               \* the browser ids whose detector has a running browser
    callers,            \* per calling thread: its position in start_browser
    nextBid,            \* source of the browser ids the callers pass
    waiting,            \* the browser ids whose caller is a check thread in its wait loop
    returned,           \* history: the browser ids whose check thread has returned
    is_running,         \* StreamDetector.is_running
    auto_download,      \* StreamDetector.auto_download
    detected_streams,   \* StreamDetector.detected_streams
    download_started,   \* StreamDetector.download_started
    awaiting_resolution_selection,
    pipelines,          \* history: calls of _handle_stream_detection
    downloader_calls,   \* history: calls of the download callback
    sources,            \* per event thread: its position in the detection pipeline
    time,               \* the last reading of time.time()
    requests,           \* per Fetch requestId: unseen, paused, continued, or dropped
                        \* (its handler returned without Fetch.continueRequest)
    threads,            \* per event thread: none, absent, running or stopped
    available_resolutions,  \* len(StreamDetector.available_resolutions)
    outcome,            \* history: what the manifest of the last pipeline that ended
                        \* was, and the exception that ended it
    lock,               \* Scheduler.lock: the thread that holds it, or Nobody
    users,              \* per thread that uses the store: the operation it is in
                        \* and its position in it
    checks,             \* per check thread: its position in _run_browser_check_task,
                        \* the polls it made, its schedule's status and what
                        \* get_download_status had returned when it set the status
    download_queue,     \* DownloadService.download_queue, per browser id
    download_threads,   \* per browser id: the position of its _process_download thread
    running,            \* Scheduler.running
    thread,             \* the position of the runner thread in _run_loop
    waited,             \* the turns of the wait loop of _run_loop made since the pass
    previous,           \* the position of the runner thread of the start() before
                        \* the last, when stop() returned before that thread ended
    args,               \* the arguments of the call of the function under study
    result,             \* what the call returned, once it has returned
    stopped             \* history: where the runner thread was when stop() cleared the
                        \* flag, and the sleeps it has finished since then

schedulerVars ==
    <<clock, schedules, nextId, workers, ticked, spawnInfo, startFailed, dlInfo,
      persisted>>

browserVars == <<active_browsers, live, callers, nextBid, waiting, returned>>

detectorVars ==
    <<is_running, auto_download, detected_streams, download_started,
      awaiting_resolution_selection, pipelines, downloader_calls, sources,
      time, requests, threads, available_resolutions, outcome>>

storeVars == <<lock, users>>

checkVars == <<checks, download_queue, download_threads>>

runnerVars == <<running, thread, waited, stopped, previous>>

pureVars == <<args, result>>

vars ==
    <<schedulerVars, browserVars, detectorVars, storeVars, checkVars, runnerVars,
      pureVars>>

----------------------------------------------------------------------------
(* Bounds of the model.                                                    *)

HoursPerDay == 2        \* hours of the model's day
MinutesPerHour == 6     \* minutes of the model's hour
MaxClock == 20          \* the clock stops here
MaxSchedules == 1       \* length of the schedule list
MaxAdds == 2            \* add_schedule calls in one behaviour
MaxSpawns == 2          \* the histories count up to this number
MaxPassDelay == 1       \* minutes between the pass's now and _update_next_check's now
MaxWorkerLife == 1      \* minutes a check thread lives at most

DayLen == HoursPerDay * MinutesPerHour

(* Program constants.                                                      *)

JitterMin == 5          \* random.uniform(5, 8)
JitterMax == 8
WeekDays == 7           \* timedelta(days=7)
None == -1              \* Python's None in next_check

Jitter == JitterMin..JitterMax

----------------------------------------------------------------------------
(* datetime helpers.                                                       *)

\* "HH:MM".split(':') mapped through int
ParseHour(hhmm) == hhmm \div 100
ParseMinute(hhmm) == hhmm % 100

\* now.date()
DateOf(t) == t \div DayLen

\* datetime.combine(date, datetime.min.time().replace(hour=h, minute=m))
Combine(date, h, m) == date * DayLen + h * MinutesPerHour + m

\* now.time() < datetime.min.time().replace(hour=h, minute=m)
TimeBefore(t, h, m) ==
    LET th == (t % DayLen) \div MinutesPerHour
        tm == (t % DayLen) % MinutesPerHour
    IN  th < h \/ (th = h /\ tm < m)

\* end_hour < start_hour or (end_hour == start_hour and end_min < start_min)
spans_midnight(s) ==
    LET sh == ParseHour(s.start_time)
        sm == ParseMinute(s.start_time)
        eh == ParseHour(s.end_time)
        em == ParseMinute(s.end_time)
    IN  eh < sh \/ (eh = sh /\ em < sm)

\* The window [start_dt, end_dt] a daily schedule has at time t
DailyWindow(s, t) ==
    LET sh == ParseHour(s.start_time)
        sm == ParseMinute(s.start_time)
        eh == ParseHour(s.end_time)
        em == ParseMinute(s.end_time)
        today == DateOf(t)
    IN  IF spans_midnight(s)
        THEN IF TimeBefore(t, sh, sm)
             THEN [start_dt |-> Combine(today - 1, sh, sm),
                   end_dt   |-> Combine(today, eh, em)]
             ELSE [start_dt |-> Combine(today, sh, sm),
                   end_dt   |-> Combine(today, eh, em) + DayLen]
        ELSE [start_dt |-> Combine(today, sh, sm),
              end_dt   |-> Combine(today, eh, em)]

\* The window of any schedule at time t; an absolute schedule's times are datetimes
WindowAt(s, t) ==
    IF s.daily THEN DailyWindow(s, t)
    ELSE [start_dt |-> s.start_time, end_dt |-> s.end_time]

\* A next check that is not clamped to the end of the window
NextUnclamped(t, minutes, end_dt) == t + minutes

\* now + timedelta(minutes=minutes), clamped to the end of the window
ClampedNext(t, minutes, end_dt) ==
    IF t + minutes > end_dt THEN end_dt ELSE t + minutes

_update_next_check(s, t, minutes) ==
    LET w == WindowAt(s, t) IN
    IF t < w.start_dt
    THEN [s EXCEPT !.next_check = w.start_dt]
    ELSE IF w.start_dt <= t /\ t <= w.end_dt
    THEN [s EXCEPT !.next_check = ClampedNext(t, minutes, w.end_dt)]
    ELSE IF s.daily
    THEN LET sh == ParseHour(s.start_time)
             sm == ParseMinute(s.start_time)
             next_start ==
                 IF spans_midnight(s) /\ TimeBefore(t, sh, sm)
                 THEN Combine(DateOf(t), sh, sm)
                 ELSE Combine(DateOf(t) + 1, sh, sm)
         IN  [s EXCEPT !.next_check = next_start]
    ELSE [s EXCEPT !.next_check = None]

\* A weekly shift that moves the start of the window and not its end
RescheduleStartOnly(s, t, minutes) ==
    _update_next_check(
        [s EXCEPT !.start_time = s.start_time + WeekDays * DayLen,
                  !.status = "pending"],
        t, minutes)

_reschedule_next_week(s, t, minutes) ==
    _update_next_check(
        [s EXCEPT !.start_time = s.start_time + WeekDays * DayLen,
                  !.end_time = s.end_time + WeekDays * DayLen,
                  !.status = "pending"],
        t, minutes)

\* The result of evaluating one schedule: the record and whether a thread starts
Outcome(s, spawn) == [sched |-> s, spawn |-> spawn]

\* _perform_check: start the check thread, then recompute next_check
_perform_check(s, t2, minutes) ==
    Outcome(_update_next_check(s, t2, minutes), TRUE)

\* An in-window evaluation that starts a check on every pass
CheckOnEveryPass(s, now, t2, minutes) ==
    IF s.status = "download_started"
    THEN Outcome(s, FALSE)
    ELSE _perform_check([s EXCEPT !.status = "active"], t2, minutes)

\* The branches both evaluations share: inside the window, before it
InWindowBranch(s, now, t2, minutes) ==
    IF s.status = "download_started"
    THEN Outcome(s, FALSE)
    ELSE LET was_pending == s.status = "pending"
             a == [s EXCEPT !.status = "active"]
         IN  IF was_pending \/ s.next_check = None \/ now >= s.next_check
             THEN _perform_check(a, t2, minutes)
             ELSE Outcome(a, FALSE)

BeforeWindowBranch(s, start_dt, t2, minutes) ==
    LET p == [s EXCEPT !.status = "pending"]
    IN  IF p.next_check = None \/ p.next_check # start_dt
        THEN Outcome(_update_next_check(p, t2, minutes), FALSE)
        ELSE Outcome(p, FALSE)

_check_daily_schedule(s, now, t2, minutes) ==
    LET w == DailyWindow(s, now) IN
    IF w.start_dt <= now /\ now <= w.end_dt
    THEN InWindowBranch(s, now, t2, minutes)
    ELSE IF now < w.start_dt
    THEN BeforeWindowBranch(s, w.start_dt, t2, minutes)
    ELSE IF s.status = "download_started"
    THEN Outcome(_update_next_check(
                    [s EXCEPT !.status = "pending", !.last_check = None],
                    t2, minutes), FALSE)
    ELSE Outcome(s, FALSE)

\* A loop body that leaves a one-time schedule as it is once its window passed
CheckOneLeavesPassed(s, now, t2, minutes) ==
    IF s.status = "completed" /\ ~s.daily
    THEN Outcome(s, FALSE)
    ELSE IF s.daily
    THEN _check_daily_schedule(s, now, t2, minutes)
    ELSE IF now > s.end_time
    THEN IF s.repeat
         THEN Outcome(_reschedule_next_week(s, t2, minutes), FALSE)
         ELSE Outcome(s, FALSE)
    ELSE IF s.start_time <= now /\ now <= s.end_time
    THEN InWindowBranch(s, now, t2, minutes)
    ELSE BeforeWindowBranch(s, s.start_time, t2, minutes)

\* The body of the loop of _check_schedules for one schedule
CheckOne(s, now, t2, minutes) ==
    IF s.status = "completed" /\ ~s.daily
    THEN Outcome(s, FALSE)
    ELSE IF s.daily
    THEN _check_daily_schedule(s, now, t2, minutes)
    ELSE IF now > s.end_time
    THEN IF s.repeat
         THEN Outcome(_reschedule_next_week(s, t2, minutes), FALSE)
         ELSE IF s.status # "download_started"
         THEN Outcome([s EXCEPT !.status = "completed"], FALSE)
         ELSE Outcome(s, FALSE)
    ELSE IF s.start_time <= now /\ now <= s.end_time
    THEN InWindowBranch(s, now, t2, minutes)
    ELSE BeforeWindowBranch(s, s.start_time, t2, minutes)

----------------------------------------------------------------------------
(* Inputs of the store operations.                                         *)

\* ("HH:MM", "HH:MM") pairs: 00:02-01:04, 01:04-00:02 and 01:04-01:01 (both
\* spanning midnight), 01:01-01:04
DailyRequests == {<<2, 104>>, <<104, 2>>, <<104, 101>>, <<101, 104>>}
AbsTimes == {3, 10}
DailyMove == <<101, 104>>

\* start_time, end_time, daily, repeat as a caller passes them
Requests ==
    {[start_time |-> p[1], end_time |-> p[2], daily |-> TRUE, repeat |-> FALSE] :
        p \in DailyRequests}
    \cup
    {r \in [start_time : AbsTimes, end_time : AbsTimes, daily : {FALSE},
            repeat : BOOLEAN] : r.start_time <= r.end_time}

Ids == 1..MaxAdds

NewSchedule(id, r) ==
    [id |-> id, start_time |-> r.start_time, end_time |-> r.end_time,
     repeat |-> r.repeat, daily |-> r.daily, status |-> "pending",
     next_check |-> None, last_check |-> None]

NoInfo == [start_dt |-> None, end_dt |-> None, n |-> 0]

\* The history entry after one more event in window w
Bump(info, w) ==
    [start_dt |-> w.start_dt, end_dt |-> w.end_dt,
     n |-> IF info.start_dt = w.start_dt /\ info.end_dt = w.end_dt
           THEN (IF info.n < MaxSpawns THEN info.n + 1 ELSE info.n)
           ELSE 1]

(* Scheduler.lock and the threads that use the schedule store.             *)

MaxApiThreads == 2

Nobody == <<"nobody", 0>>
Runner == <<"runner", 0>>
Worker == <<"worker", 0>>
ApiThreads == {<<"api", n>> : n \in 1..MaxApiThreads}
StoreUsers == {Runner, Worker} \cup ApiThreads

\* The operations that run `with self.lock`, and get_schedules, which does not
LockedOps == {"add_schedule", "update_schedule", "remove_schedule",
              "refresh_all_schedule_times"}

Resting == [op |-> "none", pc |-> "idle"]

\* Scheduler.__init__: self.lock = threading.Lock()
StoreInit ==
    /\ lock = Nobody
    /\ users = [u \in StoreUsers |-> Resting]

(* A check thread, its browser session and the download it may start.      *)

MaxCheckThreads == 2
MaxPolls == 2

\* The check threads, each with the browser id it made up
CheckIds == 1..MaxCheckThreads

NotChecking == [pc |-> "idle", polls |-> 0, status |-> "active", seen |-> "absent"]

\* DownloadService.__init__: self.download_queue = {}
CheckInit ==
    /\ checks = [c \in CheckIds |-> NotChecking]
    /\ download_queue = [c \in CheckIds |-> "absent"]
    /\ download_threads = [c \in CheckIds |-> "none"]

(* The runner thread.                                                      *)

WaitTurns == 30         \* for _ in range(30)
MaxSleepsCounted == 2

NotStopped == [at |-> "none", sleeps |-> 0]

\* Scheduler.__init__: self.running = False, self.thread = None
RunnerInit ==
    /\ running = FALSE
    /\ thread = "none"
    /\ waited = 0
    /\ stopped = NotStopped
    /\ previous = "none"

(* BrowserService: the threads that call start_browser.                    *)

MaxCallers == 2
MaxBrowsers == 3

Callers == 1..MaxCallers

NotCalling == [pc |-> "idle", browser_id |-> 0, browsers_to_close |-> {}]

\* BrowserService.__init__
BrowserInit ==
    /\ active_browsers = {}
    /\ live = {}
    /\ nextBid = 1
    /\ callers = [t \in Callers |-> NotCalling]
    /\ waiting = {}
    /\ returned = {}

(* StreamDetector: the threads that deliver stream events.                 *)

MaxEvents == 2

MaxTime == 1

MaxRequests == 2

MaxLines == 2

Sources == {"ws", "poll"}

Other(src) == IF src = "ws" THEN "poll" ELSE "ws"

RequestIds == 1..MaxRequests

\* The urls of the responses a page makes, and of the requests Fetch pauses
Urls == {"master.m3u8", "manifest.mpd"}

FetchUrls == {"master.m3u8", "video.m3u8", "chunklist.m3u8", "page.html"}

MimeTypes == {"application/vnd.apple.mpegurl", "application/dash+xml"}

HasM3u8(url) == url \in {"master.m3u8", "video.m3u8", "chunklist.m3u8"}

\* What _is_video_stream looks at in a url and a mime type: the url ends in
\* .ts or .m4s or contains /segment/ (segment); contains usher.ttvnw.net
\* (usher); contains .m3u8 (m3u8); ends in .m3u8 or contains ".m3u8?"
\* (ext_m3u8), the same for .mpd (ext_mpd); contains doubleclick, analytics or
\* tracking (ad); contains playlist (playlist); the mime type contains one of
\* the playlist mime types (mime)
FeatureNames ==
    {"segment", "usher", "m3u8", "ext_m3u8", "ext_mpd", "ad", "playlist", "mime"}

\* A url with the extension .m3u8 contains .m3u8
Features == {f \in [FeatureNames -> BOOLEAN] : f.ext_m3u8 => f.m3u8}

\* NetworkMonitorMixin._is_video_stream, statement by statement
_is_video_stream(f) ==
    IF f.segment THEN FALSE
    ELSE IF f.usher /\ f.m3u8 THEN TRUE
    ELSE IF f.ext_m3u8 \/ f.ext_mpd THEN ~f.ad
    ELSE IF f.playlist /\ f.m3u8 THEN TRUE
    ELSE IF f.mime THEN TRUE
    ELSE FALSE

\* The features of the urls and mime types of the detector's events
UrlFeatures(url, mime_type) ==
    [n \in FeatureNames |->
        CASE n = "m3u8" -> HasM3u8(url)
          [] n = "ext_m3u8" -> HasM3u8(url)
          [] n = "ext_mpd" -> url = "manifest.mpd"
          [] n = "mime" -> mime_type \in MimeTypes
          [] OTHER -> FALSE]

_is_likely_master_playlist(url) == url = "master.m3u8"

_is_likely_media_playlist(url) == url = "chunklist.m3u8"

_get_stream_type(url) ==
    IF HasM3u8(url) THEN "HLS"
    ELSE IF url = "manifest.mpd" THEN "DASH"
    ELSE "UNKNOWN"

MaxBandwidth == 2

\* The lines of a manifest.  An "inf" line is an #EXT-X-STREAM-INF tag: first
\* says that BANDWIDTH is the first attribute of the line, numeric that its
\* value is a number, bw is that number.  A "uri" line is not empty and starts
\* with no '#'; a "tag" line is any other line.
InfLines ==
    {[kind |-> "inf", first |-> f, numeric |-> TRUE, bw |-> b] :
        f \in BOOLEAN, b \in 1..MaxBandwidth}
        \cup {[kind |-> "inf", first |-> f, numeric |-> FALSE, bw |-> 0] :
                f \in BOOLEAN}

Lines ==
    InfLines \cup {[kind |-> k, first |-> FALSE, numeric |-> FALSE, bw |-> 0] :
                      k \in {"uri", "tag"}}

StreamInf == InfLines

Manifests(n) == UNION {[1..k -> Lines] : k \in 0..n}

Contents == Manifests(MaxLines)

\* What requests.get(url, timeout=10) comes back with; status 0 is a timeout
\* or a connection error
Responses ==
    {[status_code |-> 200, text |-> c] : c \in Contents}
        \cup {[status_code |-> 404, text |-> << >>], [status_code |-> 0, text |-> << >>]}

\* PlaylistParser.fetch_master_playlist: the text, or None
fetch_master_playlist(response) ==
    IF response.status_code = 200
    THEN [none |-> FALSE, text |-> response.text]
    ELSE [none |-> TRUE, text |-> << >>]

\* attrs.get('BANDWIDTH', 0): the line is split at the commas, so the key of
\* its first attribute starts with the tag itself and a BANDWIDTH in that
\* place is not found
BandwidthAttr(line) ==
    IF line.first THEN [found |-> FALSE, numeric |-> TRUE, bw |-> 0]
    ELSE [found |-> TRUE, numeric |-> line.numeric, bw |-> line.bw]

\* int(...) of it raises ValueError when it is no number
BandwidthRaises(line) == ~BandwidthAttr(line).numeric

\* list.sort(key=bandwidth, reverse=True): stable, equal keys keep their order
RECURSIVE InsertByBandwidth(_, _)
InsertByBandwidth(sorted, v) ==
    IF sorted = << >> THEN <<v>>
    ELSE IF Head(sorted).bandwidth >= v.bandwidth
         THEN <<Head(sorted)>> \o InsertByBandwidth(Tail(sorted), v)
         ELSE <<v>> \o sorted

RECURSIVE SortByBandwidth(_)
SortByBandwidth(variants) ==
    IF variants = << >> THEN << >>
    ELSE InsertByBandwidth(SortByBandwidth(SubSeq(variants, 1, Len(variants) - 1)),
                           variants[Len(variants)])

\* The loop of parse_master_playlist from line i on: a variant per tag line
\* that a uri line follows, its url being that line
RECURSIVE VariantsFrom(_, _)
VariantsFrom(content, i) ==
    IF i > Len(content) THEN << >>
    ELSE IF /\ content[i] \in StreamInf
            /\ i + 1 <= Len(content)
            /\ content[i + 1].kind = "uri"
         THEN <<[url |-> i + 1, bandwidth |-> BandwidthAttr(content[i]).bw]>>
                  \o VariantsFrom(content, i + 1)
         ELSE VariantsFrom(content, i + 1)

\* PlaylistParser.parse_master_playlist; raised is the ValueError of int()
parse_master_playlist(content) ==
    LET blocks == {i \in 1..Len(content) :
                      /\ content[i] \in StreamInf
                      /\ i + 1 <= Len(content)
                      /\ content[i + 1].kind = "uri"}
    IN  IF \E i \in blocks : BandwidthRaises(content[i])
        THEN [raised |-> TRUE, resolutions |-> << >>]
        ELSE [raised |-> FALSE,
              resolutions |-> SortByBandwidth(VariantsFrom(content, 1))]

\* What the playlist fetch and parse of an accepted event will find
Kinds == {"master", "unparsed", "single", "fetch_failed", "bad_bandwidth"}

\* _handle_stream_detection and _process_master_playlist up to the branch taken
PipelineKind(url, response) ==
    IF ~HasM3u8(url) THEN "single"
    ELSE LET content == fetch_master_playlist(response) IN
         IF content.none THEN "fetch_failed"
         ELSE IF \E i \in 1..Len(content.text) : content.text[i] \in StreamInf
         THEN LET parsed == parse_master_playlist(content.text) IN
              IF parsed.raised THEN "bad_bandwidth"
              ELSE IF parsed.resolutions # << >> THEN "master"
              ELSE "unparsed"
         ELSE "single"

\* What the manifest of an m3u8 url can turn out to be, over all responses
M3u8Kinds == {PipelineKind("master.m3u8", response) : response \in Responses}

KindsOf(url) == IF HasM3u8(url) THEN M3u8Kinds ELSE {PipelineKind(url, << >>)}

NoOutcome == [kind |-> "single", exception |-> "none"]

NoPipeline == [pc |-> "idle", kind |-> "single", req |-> 0, alone |-> FALSE]

\* StreamDetector.__init__
DetectorInit ==
    /\ is_running = FALSE
    /\ auto_download = FALSE
    /\ detected_streams = << >>
    /\ download_started = FALSE
    /\ awaiting_resolution_selection = FALSE
    /\ pipelines = 0
    /\ downloader_calls = 0
    /\ sources = [src \in Sources |-> NoPipeline]
    /\ time = 0
    /\ requests = [r \in RequestIds |-> "unseen"]
    /\ threads = [src \in Sources |-> "none"]
    /\ available_resolutions = 0
    /\ outcome = NoOutcome

\* No call has been made, nothing has returned
NoArgs == << >>

NotReturned == << >>

ProgramInit ==
    /\ clock = 0
    /\ schedules = << >>
    /\ persisted = << >>
    /\ nextId = 1
    /\ workers = {}
    /\ ticked = FALSE
    /\ spawnInfo = [id \in Ids |-> NoInfo]
    /\ startFailed = [id \in Ids |-> 0]
    /\ dlInfo = [id \in Ids |-> NoInfo]
    /\ BrowserInit
    /\ DetectorInit
    /\ StoreInit
    /\ CheckInit
    /\ RunnerInit

Init ==
    /\ ProgramInit
    /\ args = NoArgs
    /\ result = NotReturned

\* A time string that neither the "HH:MM" split nor fromisoformat accepts
Unparseable == -2

\* _update_next_check and the body of the pass read both times of s
Parses(s) == s.start_time # Unparseable /\ s.end_time # Unparseable

\* Time passes; a running check thread ends within MaxWorkerLife
Advance ==
    /\ clock < MaxClock
    /\ \A w \in workers : clock + 1 - w.born <= MaxWorkerLife
    /\ clock' = clock + 1
    /\ ticked' = FALSE
    /\ UNCHANGED <<schedules, nextId, workers, spawnInfo, startFailed, dlInfo,
                   persisted, pureVars, browserVars, detectorVars, storeVars, checkVars, runnerVars>>

AddStep(r, minutes) ==
    /\ Len(schedules) < MaxSchedules
    /\ nextId <= MaxAdds
    /\ schedules' = Append(schedules,
                           _update_next_check(NewSchedule(nextId, r), clock, minutes))
    /\ nextId' = nextId + 1
    /\ persisted' = schedules'
    /\ UNCHANGED <<clock, workers, ticked, spawnInfo, startFailed, dlInfo,
                   pureVars, browserVars, detectorVars, storeVars, checkVars, runnerVars>>

add_schedule == \E r \in Requests, minutes \in Jitter : AddStep(r, minutes)

\* One pass of the runner loop, _check_schedules under the lock: the pass reads
\* now, every _update_next_check of the pass reads t2 = now + delay.  The loop
\* sleeps between passes, so two passes never read the same minute.
TickStep(delay, minutes) ==
    LET now == clock
        t2 == clock + delay
        res == [i \in 1..Len(schedules) |->
                   IF Parses(schedules[i])
                   THEN CheckOne(schedules[i], now, t2, minutes[i])
                   ELSE [sched |-> schedules[i], spawn |-> FALSE]]
        Spawned == {i \in 1..Len(schedules) : res[i].spawn}
    IN  /\ ~ticked
        /\ t2 <= MaxClock
        /\ \A w \in workers : t2 - w.born <= MaxWorkerLife
        /\ schedules' = [i \in 1..Len(schedules) |-> res[i].sched]
        /\ persisted' = schedules'
        /\ workers' = workers \cup
              {[sid |-> schedules[i].id, born |-> now, pc |-> "start"] : i \in Spawned}
        /\ spawnInfo' = [id \in Ids |->
              IF \E i \in Spawned : schedules[i].id = id
              THEN LET i == CHOOSE i \in Spawned : schedules[i].id = id
                   IN  Bump(spawnInfo[id], WindowAt(schedules[i], now))
              ELSE spawnInfo[id]]
        /\ startFailed' = [id \in Ids |->
              IF spawnInfo'[id].n > spawnInfo[id].n \/ spawnInfo'[id] = spawnInfo[id]
              THEN startFailed[id] ELSE 0]
        /\ clock' = t2
        /\ ticked' = (delay = 0)
        /\ UNCHANGED <<nextId, dlInfo,
                   pureVars, browserVars, detectorVars, storeVars, checkVars, runnerVars>>

_check_schedules ==
    \E delay \in 0..MaxPassDelay, minutes \in [1..Len(schedules) -> Jitter] :
        TickStep(delay, minutes)

\* remove_schedule: every record with the id goes; so does the id's history
RemoveStep(id) ==
    /\ \E i \in 1..Len(schedules) : schedules[i].id = id
    /\ schedules' = SelectSeq(schedules, LAMBDA s : s.id # id)
    /\ persisted' = schedules'
    /\ spawnInfo' = [spawnInfo EXCEPT ![id] = NoInfo]
    /\ startFailed' = [startFailed EXCEPT ![id] = 0]
    /\ dlInfo' = [dlInfo EXCEPT ![id] = NoInfo]
    /\ UNCHANGED <<clock, nextId, workers, ticked,
                   pureVars, browserVars, detectorVars, storeVars, checkVars, runnerVars>>

remove_schedule == \E id \in Ids : RemoveStep(id)

\* update_schedule: the first record with the id gets the new fields
UpdateStep(i, r, minutes) ==
    /\ i \in 1..Len(schedules)
    /\ \A j \in 1..(i - 1) : schedules[j].id # schedules[i].id
    /\ schedules' = [schedules EXCEPT ![i] =
           _update_next_check(
               [@ EXCEPT !.start_time = r.start_time, !.end_time = r.end_time,
                         !.repeat = r.repeat, !.daily = r.daily,
                         !.status = "pending"],
               clock, minutes)]
    /\ persisted' = schedules'
    /\ spawnInfo' = [spawnInfo EXCEPT ![schedules[i].id] = NoInfo]
    /\ startFailed' = [startFailed EXCEPT ![schedules[i].id] = 0]
    /\ UNCHANGED <<clock, nextId, workers, ticked, dlInfo,
                   pureVars, browserVars, detectorVars, storeVars, checkVars, runnerVars>>

\* The requests update_schedule is called with: one that keeps the times (it
\* changes the url, the name or the format), and one that moves to DailyMove
UpdateRequests(s) ==
    {[start_time |-> s.start_time, end_time |-> s.end_time,
      daily |-> s.daily, repeat |-> s.repeat],
     [start_time |-> DailyMove[1], end_time |-> DailyMove[2],
      daily |-> TRUE, repeat |-> FALSE]}

update_schedule ==
    \E i \in 1..Len(schedules), minutes \in Jitter :
        \E r \in UpdateRequests(schedules[i]) : UpdateStep(i, r, minutes)

\* A request whose times _update_next_check cannot read: the route passes the
\* name where update_schedule takes daily, so a named request with ISO times
\* arrives as a daily one
RaisingRequests ==
    {[start_time |-> Unparseable, end_time |-> Unparseable,
      daily |-> TRUE, repeat |-> FALSE]}

\* update_schedule with such a request: the fields are written, the call
\* raises inside `with self.lock`, and save_schedules is not reached
UpdateRaisesStep(i, r) ==
    /\ i \in 1..Len(schedules)
    /\ \A j \in 1..(i - 1) : schedules[j].id # schedules[i].id
    /\ schedules' = [schedules EXCEPT ![i] =
           [@ EXCEPT !.start_time = r.start_time, !.end_time = r.end_time,
                     !.repeat = r.repeat, !.daily = r.daily, !.status = "pending"]]
    /\ UNCHANGED <<clock, nextId, workers, ticked, spawnInfo, startFailed, dlInfo,
                   persisted, pureVars, browserVars, detectorVars, storeVars, checkVars, runnerVars>>

update_schedule_raises ==
    \E i \in 1..Len(schedules), r \in RaisingRequests : UpdateRaisesStep(i, r)

RefreshStep(minutes) ==
    /\ Len(schedules) > 0
    /\ \A i \in 1..Len(schedules) : Parses(schedules[i])
    /\ schedules' = [i \in 1..Len(schedules) |->
                         _update_next_check(schedules[i], clock, minutes[i])]
    /\ persisted' = schedules'
    /\ UNCHANGED <<clock, nextId, workers, ticked, spawnInfo, startFailed, dlInfo,
                   pureVars, browserVars, detectorVars, storeVars, checkVars, runnerVars>>

refresh_all_schedule_times ==
    \E minutes \in [1..Len(schedules) -> Jitter] : RefreshStep(minutes)

\* refresh_all_schedule_times on a list with a record whose times cannot be
\* read: the records before it get their next_check, then the call raises and
\* save_schedules is not reached
RefreshRaisesStep(minutes) ==
    LET bad == CHOOSE i \in 1..Len(schedules) :
                   /\ ~Parses(schedules[i])
                   /\ \A j \in 1..(i - 1) : Parses(schedules[j])
    IN  /\ \E i \in 1..Len(schedules) : ~Parses(schedules[i])
        /\ schedules' = [i \in 1..Len(schedules) |->
               IF i < bad THEN _update_next_check(schedules[i], clock, minutes[i])
               ELSE schedules[i]]
        /\ UNCHANGED <<clock, nextId, workers, ticked, spawnInfo, startFailed, dlInfo,
                       persisted, pureVars, browserVars, detectorVars, storeVars, checkVars, runnerVars>>

refresh_raises ==
    \E minutes \in [1..Len(schedules) -> Jitter] : RefreshRaisesStep(minutes)

----------------------------------------------------------------------------
(* The check thread, _run_browser_check_task.  The browser service and the *)
(* download service are collaborators handed to the scheduler; what their  *)
(* calls return is an input of the thread.                                 *)

\* The position of the first record with this id, 0 when there is none
FirstWithId(id) ==
    IF \E i \in 1..Len(schedules) : schedules[i].id = id
    THEN CHOOSE i \in 1..Len(schedules) :
            /\ schedules[i].id = id
            /\ \A j \in 1..(i - 1) : schedules[j].id # id
    ELSE 0

\* A status write that puts a record of the id back when the store has none
MarkDownloadStartedOrReAdd(id) ==
    LET i == FirstWithId(id) IN
    IF i = 0
    THEN Append(schedules,
                [NewSchedule(id, CHOOSE r \in Requests : TRUE)
                    EXCEPT !.status = "download_started"])
    ELSE [schedules EXCEPT ![i] =
             [@ EXCEPT !.status = "download_started", !.next_check = None]]

\* with self.lock: for s in self.schedules: if s['id'] == schedule['id']: ...
MarkDownloadStarted(id) ==
    LET i == FirstWithId(id) IN
    IF i = 0 THEN schedules
    ELSE [schedules EXCEPT ![i] =
             [@ EXCEPT !.status = "download_started", !.next_check = None]]

\* A start failure that takes the schedule's next_check away
StartFailureClearsNextCheck(w) ==
    /\ w \in workers /\ w.pc = "start"
    /\ workers' = workers \ {w}
    /\ startFailed' = [startFailed EXCEPT ![w.sid] = spawnInfo[w.sid].n]
    /\ schedules' = [i \in 1..Len(schedules) |->
           IF schedules[i].id = w.sid
           THEN [schedules[i] EXCEPT !.next_check = None, !.status = "pending"]
           ELSE schedules[i]]
    /\ UNCHANGED <<clock, nextId, ticked, spawnInfo, dlInfo, persisted,
                   pureVars, browserVars, detectorVars, storeVars, checkVars, runnerVars>>

\* start_browser raised, or returned (False, None): the thread returns
WorkerStartFails(w) ==
    /\ w \in workers /\ w.pc = "start"
    /\ workers' = workers \ {w}
    /\ startFailed' = [startFailed EXCEPT ![w.sid] = spawnInfo[w.sid].n]
    /\ UNCHANGED <<clock, schedules, nextId, ticked, spawnInfo, dlInfo, persisted,
                   pureVars, browserVars, detectorVars, storeVars, checkVars, runnerVars>>

\* start_browser returned (True, detector): the thread enters its wait loop
WorkerStartBrowser(w) ==
    /\ w \in workers /\ w.pc = "start"
    /\ workers' = (workers \ {w}) \cup {[w EXCEPT !.pc = "poll"]}
    /\ UNCHANGED <<clock, schedules, nextId, ticked, spawnInfo, startFailed, dlInfo,
                   persisted, pureVars, browserVars, detectorVars, storeVars, checkVars, runnerVars>>

\* get_download_status returned a record: mark the schedule, close, return
WorkerDownloadSeen(w) ==
    /\ w \in workers /\ w.pc = "poll"
    /\ schedules' = MarkDownloadStarted(w.sid)
    /\ persisted' = IF FirstWithId(w.sid) = 0 THEN persisted ELSE schedules'
    /\ dlInfo' =
          LET i == FirstWithId(w.sid) IN
          IF i # 0 /\ schedules[i].status # "download_started"
          THEN [dlInfo EXCEPT ![w.sid] =
                   Bump(@, WindowAt(schedules[i], clock))]
          ELSE dlInfo
    /\ workers' = workers \ {w}
    /\ UNCHANGED <<clock, nextId, ticked, spawnInfo, startFailed,
                   pureVars, browserVars, detectorVars, storeVars, checkVars, runnerVars>>

\* The wait ran out, or get_browser_status returned None: close, return
WorkerGivesUp(w) ==
    /\ w \in workers /\ w.pc = "poll"
    /\ workers' = workers \ {w}
    /\ UNCHANGED <<clock, schedules, nextId, ticked, spawnInfo, startFailed, dlInfo,
                   persisted, pureVars, browserVars, detectorVars, storeVars, checkVars, runnerVars>>

_run_browser_check_task ==
    \E w \in workers :
        \/ WorkerStartFails(w)
        \/ WorkerStartBrowser(w)
        \/ WorkerDownloadSeen(w)
        \/ WorkerGivesUp(w)

Next ==
    \/ Advance
    \/ add_schedule
    \/ remove_schedule
    \/ update_schedule
    \/ refresh_all_schedule_times
    \/ _check_schedules
    \/ _run_browser_check_task

Spec == Init /\ [][Next]_vars

\* The store with requests whose times cannot be read
NextPersist ==
    \/ Next
    \/ update_schedule_raises
    \/ refresh_raises

SpecPersist == Init /\ [][NextPersist]_vars

\* A store of several records, each with a check thread that has been
\* spawned for it.  ids are millisecond time stamps (str(int(time.time() *
\* 1000))) and load_schedules takes the file as it is, so two records of a
\* store may carry the same id.
MaxStored == 3

StoredRecords ==
    {_update_next_check(NewSchedule(id, r), 0, JitterMin) :
        id \in Ids, r \in {q \in Requests : q.daily /\ q.start_time < q.end_time}}

Stores ==
    {s \in UNION {[1..n -> StoredRecords] : n \in 2..MaxStored} :
        \A id \in Ids : \E i \in 1..Len(s) : s[i].id = id}

InitStored ==
    /\ clock = 0
    /\ schedules \in Stores
    /\ persisted = schedules
    /\ nextId = MaxAdds + 1
    /\ workers = {[sid |-> id, born |-> 0, pc |-> "start"] : id \in Ids}
    /\ ticked = TRUE
    /\ spawnInfo = [id \in Ids |->
                       Bump(NoInfo, WindowAt(schedules[FirstWithId(id)], 0))]
    /\ startFailed = [id \in Ids |-> 0]
    /\ dlInfo = [id \in Ids |-> NoInfo]
    /\ BrowserInit
    /\ DetectorInit
    /\ StoreInit
    /\ CheckInit
    /\ RunnerInit
    /\ args = NoArgs
    /\ result = NotReturned

\* remove_schedule calls and the steps of the check threads
NextStored ==
    \/ remove_schedule
    \/ _run_browser_check_task

SpecStored == InitStored /\ [][NextStored]_vars

\* The runner thread keeps making passes, time passes, and a check thread
\* always takes its next step; the store operations are up to the callers
SpecLive ==
    /\ Spec
    /\ WF_vars(_check_schedules)
    /\ WF_vars(Advance)
    /\ WF_vars(_run_browser_check_task)

----------------------------------------------------------------------------
(* BrowserService.start_browser, a step at a time.  No lock is held, so    *)
(* the steps of two calling threads interleave.                            *)

\* close_browser: the detector is closed and the id unregistered, if registered
Closed(bid) ==
    /\ live' = IF bid \in active_browsers THEN live \ {bid} ELSE live
    /\ active_browsers' = active_browsers \ {bid}

\* The call arrives and reads self.active_browsers
StartBrowserCall(t) ==
    /\ callers[t].pc = "idle"
    /\ nextBid <= MaxBrowsers
    /\ callers' = [callers EXCEPT ![t] =
           [pc |-> IF active_browsers # {} THEN "closing" ELSE "register",
            browser_id |-> nextBid,
            browsers_to_close |-> active_browsers]]
    /\ nextBid' = nextBid + 1
    /\ UNCHANGED <<active_browsers, live, waiting, returned, pureVars, schedulerVars, detectorVars, storeVars, checkVars, runnerVars>>

\* One turn of the loop over browsers_to_close
CloseExisting(t) ==
    /\ callers[t].pc = "closing"
    /\ \E bid \in callers[t].browsers_to_close :
        /\ Closed(bid)
        /\ callers' = [callers EXCEPT ![t] =
               [@ EXCEPT !.browsers_to_close = @ \ {bid},
                         !.pc = IF callers[t].browsers_to_close = {bid}
                                THEN "register" ELSE "closing"]]
    /\ UNCHANGED <<nextBid, waiting, returned, pureVars, schedulerVars, detectorVars, storeVars, checkVars, runnerVars>>

\* self.active_browsers[browser_id] = detector
Register(t) ==
    /\ callers[t].pc = "register"
    /\ active_browsers' = active_browsers \cup {callers[t].browser_id}
    /\ callers' = [callers EXCEPT ![t].pc = "starting"]
    /\ UNCHANGED <<live, nextBid, waiting, returned, pureVars, schedulerVars, detectorVars, storeVars, checkVars, runnerVars>>

\* detector.start_browser(url) returns True: an API caller is done, a check
\* thread enters its wait loop
DetectorStarted(t) ==
    /\ callers[t].pc = "starting"
    /\ live' = live \cup {callers[t].browser_id}
    /\ callers' = [callers EXCEPT ![t] = NotCalling]
    /\ \E by_check_thread \in BOOLEAN :
          waiting' = IF by_check_thread
                     THEN waiting \cup {callers[t].browser_id} ELSE waiting
    /\ UNCHANGED <<active_browsers, nextBid, returned, pureVars, schedulerVars, detectorVars, storeVars, checkVars, runnerVars>>

\* detector.start_browser(url) returns False: start_browser returns
\* (False, None), on which a check thread returns
DetectorFailed(t) ==
    /\ callers[t].pc = "starting"
    /\ active_browsers' = active_browsers \ {callers[t].browser_id}
    /\ callers' = [callers EXCEPT ![t] = NotCalling]
    /\ \E by_check_thread \in BOOLEAN :
          returned' = IF by_check_thread
                      THEN returned \cup {callers[t].browser_id} ELSE returned
    /\ UNCHANGED <<live, nextBid, waiting, pureVars, schedulerVars, detectorVars, storeVars, checkVars, runnerVars>>

start_browser ==
    \E t \in Callers :
        \/ StartBrowserCall(t)
        \/ CloseExisting(t)
        \/ Register(t)
        \/ DetectorStarted(t)
        \/ DetectorFailed(t)

\* close_browser called for a registered id
close_browser ==
    \E bid \in active_browsers :
        /\ Closed(bid)
        /\ UNCHANGED <<callers, nextBid, waiting, returned, pureVars, schedulerVars, detectorVars, storeVars, checkVars, runnerVars>>

\* The wait loop of a check thread ends (download seen, wait ran out, status
\* None, or an exception): it calls close_browser(browser_id) and returns
CheckThreadCloses ==
    \E bid \in waiting :
        /\ Closed(bid)
        /\ waiting' = waiting \ {bid}
        /\ returned' = returned \cup {bid}
        /\ UNCHANGED <<callers, nextBid, pureVars, schedulerVars, detectorVars, storeVars, checkVars, runnerVars>>

NextBrowser == start_browser \/ close_browser \/ CheckThreadCloses

SpecBrowser == Init /\ [][NextBrowser]_vars

----------------------------------------------------------------------------
(* StreamDetector: the WebSocket listener thread and the performance-log   *)
(* poller thread both deliver events to _add_detected_stream.              *)

\* StreamDetector.start_browser: the session runs; the listener thread starts
\* when _setup_cdp found a WebSocket url, the poller thread starts always
DetectorStart ==
    /\ ~is_running
    /\ threads["poll"] = "none"
    /\ \E auto \in BOOLEAN : auto_download' = auto
    /\ is_running' = TRUE
    /\ \E ws \in {"absent", "running"} :
          threads' = [threads EXCEPT !["ws"] = ws, !["poll"] = "running"]
    /\ UNCHANGED <<detected_streams, download_started, awaiting_resolution_selection,
                   pipelines, downloader_calls, sources, time, requests,
                   available_resolutions, outcome, pureVars, schedulerVars, browserVars, storeVars, checkVars, runnerVars>>

\* _add_detected_stream for an event the thread src accepted; req is the
\* requestId when the caller is _handle_fetch_event, which sends
\* Fetch.continueRequest once the call has returned
AddDetectedStream(src, url, mime_type, stream_type, req) ==
    \E dt \in 0..1, kind \in KindsOf(url) :
        LET stream_info == [url |-> url, type |-> stream_type,
                            mime_type |-> mime_type, timestamp |-> time + dt]
            known == \E i \in 1..Len(detected_streams) :
                        detected_streams[i] = stream_info
        IN  /\ threads[src] = "running"
            /\ sources[src].pc = "idle"
            /\ Len(detected_streams) < MaxEvents
            /\ time + dt <= MaxTime
            /\ time' = time + dt
            /\ detected_streams' =
                  IF known THEN detected_streams
                  ELSE Append(detected_streams, stream_info)
            /\ IF ~known /\ ~download_started /\ ~awaiting_resolution_selection
               THEN /\ pipelines' = pipelines + 1
                    /\ sources' = [sources EXCEPT ![src] =
                          [pc |-> "pipeline", kind |-> kind,
                           req |-> req, alone |-> threads[Other(src)] # "running"]]
                    /\ requests' = IF req = 0 THEN requests
                                   ELSE [requests EXCEPT ![req] = "paused"]
               ELSE /\ UNCHANGED <<pipelines, sources>>
                    /\ requests' = IF req = 0 THEN requests
                                   ELSE [requests EXCEPT ![req] = "continued"]
            /\ UNCHANGED <<is_running, auto_download, download_started,
                           awaiting_resolution_selection, downloader_calls,
                           threads, available_resolutions, outcome, pureVars, schedulerVars, browserVars, storeVars, checkVars, runnerVars>>

\* A Network.responseReceived message naming a video stream, from the listener
_handle_network_event ==
    \E url \in Urls, mime_type \in MimeTypes :
        /\ _is_video_stream(UrlFeatures(url, mime_type))
        /\ AddDetectedStream("ws", url, mime_type, _get_stream_type(url), 0)

\* A poller that reads the log only while the listener thread runs
MonitorNeedsListener ==
    \E url \in Urls, mime_type \in MimeTypes :
        /\ is_running
        /\ threads["ws"] = "running"
        /\ _is_video_stream(UrlFeatures(url, mime_type))
        /\ AddDetectedStream("poll", url, mime_type, _get_stream_type(url), 0)

\* The same entry of the performance log, read by the poller
_monitor_network ==
    \E url \in Urls, mime_type \in MimeTypes :
        /\ is_running
        /\ _is_video_stream(UrlFeatures(url, mime_type))
        /\ AddDetectedStream("poll", url, mime_type, _get_stream_type(url), 0)

\* A handler that passes on every m3u8 url that is a master playlist or the
\* first stream, media playlists included
FetchDispatchesMediaPlaylists ==
    \E request_id \in RequestIds, url \in FetchUrls :
        /\ requests[request_id] = "unseen"
        /\ threads["ws"] = "running"
        /\ sources["ws"].pc = "idle"
        /\ IF /\ HasM3u8(url)
              /\ _is_likely_master_playlist(url) \/ detected_streams = << >>
              /\ _is_video_stream(UrlFeatures(url, "application/vnd.apple.mpegurl"))
           THEN AddDetectedStream("ws", url, "application/vnd.apple.mpegurl",
                                  "HLS", request_id)
           ELSE /\ requests' = [requests EXCEPT ![request_id] = "continued"]
                /\ UNCHANGED <<is_running, auto_download, detected_streams,
                               download_started, awaiting_resolution_selection,
                               pipelines, downloader_calls, sources, time, threads,
                               available_resolutions, outcome, pureVars, schedulerVars, browserVars, storeVars, checkVars, runnerVars>>

\* A Fetch.requestPaused message: an m3u8 url that is no media playlist goes to
\* _add_detected_stream first, every other request is continued at once
_handle_fetch_event ==
    \E request_id \in RequestIds, url \in FetchUrls :
        /\ requests[request_id] = "unseen"
        /\ threads["ws"] = "running"
        /\ sources["ws"].pc = "idle"
        /\ IF /\ HasM3u8(url)
              /\ ~_is_likely_media_playlist(url)
              /\ _is_likely_master_playlist(url) \/ detected_streams = << >>
              /\ _is_video_stream(UrlFeatures(url, "application/vnd.apple.mpegurl"))
           THEN AddDetectedStream("ws", url, "application/vnd.apple.mpegurl",
                                  "HLS", request_id)
           ELSE /\ requests' = [requests EXCEPT ![request_id] = "continued"]
                /\ UNCHANGED <<is_running, auto_download, detected_streams,
                               download_started, awaiting_resolution_selection,
                               pipelines, downloader_calls, sources, time, threads,
                               available_resolutions, outcome, pureVars, schedulerVars, browserVars, storeVars, checkVars, runnerVars>>

\* An exception leaves _add_detected_stream: the poller swallows it, on_message
\* logs it, and in _handle_fetch_event the statements after the call are skipped
PipelineRaises(src, exception) ==
    /\ sources' = [sources EXCEPT ![src] = NoPipeline]
    /\ outcome' = [kind |-> sources[src].kind, exception |-> exception]
    /\ requests' = IF sources[src].req = 0 THEN requests
                   ELSE [requests EXCEPT ![sources[src].req] = "dropped"]

\* _start_download_with_url: the flag, the callback, and then the NameError of
\* ThumbnailGenerator, a name the mixin's module does not import
StartDownload(src) ==
    /\ download_started' = TRUE
    /\ downloader_calls' = downloader_calls + 1
    /\ PipelineRaises(src, "NameError")
    /\ UNCHANGED <<is_running, auto_download, detected_streams,
                   awaiting_resolution_selection, pipelines, time, threads,
                   available_resolutions, pureVars, schedulerVars, browserVars, storeVars, checkVars, runnerVars>>

\* _show_stream_selection and _show_unparsed_stream are no attributes of the
\* detector: the call raises and the event thread carries on
ShowSelectionRaises(src) ==
    /\ PipelineRaises(src, "AttributeError")
    /\ UNCHANGED <<is_running, auto_download, detected_streams, download_started,
                   awaiting_resolution_selection, pipelines, downloader_calls,
                   time, threads, available_resolutions, pureVars, schedulerVars, browserVars, storeVars, checkVars, runnerVars>>

\* The playlist was fetched: _process_master_playlist or _process_single_stream
PipelineDownloads(src) ==
    /\ sources[src].pc = "pipeline"
    /\ sources[src].kind \in {"master", "single", "fetch_failed"}
    /\ auto_download
    /\ StartDownload(src)

\* _show_unparsed_stream for an empty parse; _show_stream_selection without
\* auto_download (_match_stream returns a variant for every non-empty list)
PipelineShowsSelection(src) ==
    /\ sources[src].pc = "pipeline"
    /\ \/ sources[src].kind = "unparsed"
       \/ sources[src].kind \in {"master", "single", "fetch_failed"} /\ ~auto_download
    /\ ShowSelectionRaises(src)

\* parse_master_playlist raised: the ValueError leaves _process_master_playlist
PipelineParseRaises(src) ==
    /\ sources[src].pc = "pipeline"
    /\ sources[src].kind = "bad_bandwidth"
    /\ PipelineRaises(src, "ValueError")
    /\ UNCHANGED <<is_running, auto_download, detected_streams, download_started,
                   awaiting_resolution_selection, pipelines, downloader_calls,
                   time, threads, available_resolutions, pureVars, schedulerVars, browserVars, storeVars, checkVars, runnerVars>>

_handle_stream_detection ==
    \E src \in Sources :
        \/ PipelineDownloads(src)
        \/ PipelineShowsSelection(src)
        \/ PipelineParseRaises(src)

\* run_forever returned after a WebSocket error: the listener thread ends
ListenerFails ==
    /\ threads["ws"] = "running"
    /\ sources["ws"].pc = "idle"
    /\ threads' = [threads EXCEPT !["ws"] = "stopped"]
    /\ UNCHANGED <<is_running, auto_download, detected_streams, download_started,
                   awaiting_resolution_selection, pipelines, downloader_calls,
                   sources, time, requests, available_resolutions, outcome, pureVars, schedulerVars, browserVars, storeVars, checkVars, runnerVars>>

\* driver.get_log raised: the poller thread leaves its loop
PollerFails ==
    /\ threads["poll"] = "running"
    /\ sources["poll"].pc = "idle"
    /\ threads' = [threads EXCEPT !["poll"] = "stopped"]
    /\ UNCHANGED <<is_running, auto_download, detected_streams, download_started,
                   awaiting_resolution_selection, pipelines, downloader_calls,
                   sources, time, requests, available_resolutions, outcome, pureVars, schedulerVars, browserVars, storeVars, checkVars, runnerVars>>

\* StreamDetector.close: the flag is cleared and the WebSocket is closed
DetectorClose ==
    /\ is_running
    /\ is_running' = FALSE
    /\ threads' = [threads EXCEPT !["ws"] = IF @ = "running" THEN "stopped" ELSE @]
    /\ UNCHANGED <<auto_download, detected_streams, download_started,
                   awaiting_resolution_selection, pipelines, downloader_calls,
                   sources, time, requests, available_resolutions, outcome, pureVars, schedulerVars, browserVars, storeVars, checkVars, runnerVars>>

NextDetector ==
    \/ DetectorStart
    \/ _handle_network_event
    \/ _monitor_network
    \/ _handle_fetch_event
    \/ _handle_stream_detection
    \/ ListenerFails
    \/ PollerFails
    \/ DetectorClose

SpecDetector == Init /\ [][NextDetector]_vars

----------------------------------------------------------------------------
(* The schedule store and its lock: which thread touches self.schedules or *)
(* a record of it, and whether it holds self.lock while it does.           *)

\* `with self.lock:` is entered: the thread waits until the lock is free
Acquire(u) ==
    /\ users[u].pc = "wait"
    /\ lock = Nobody
    /\ lock' = u
    /\ users' = [users EXCEPT ![u].pc = "access"]
    /\ UNCHANGED <<pureVars, schedulerVars, browserVars, detectorVars, checkVars, runnerVars>>

\* A pass that joins its check thread before it leaves the `with` block
ReleaseAfterCheckThread(u) ==
    /\ users[u].pc = "access"
    /\ lock = u
    /\ u = Runner => users[Worker].pc = "idle"
    /\ lock' = Nobody
    /\ users' = [users EXCEPT ![u] = Resting]
    /\ UNCHANGED <<pureVars, schedulerVars, browserVars, detectorVars, checkVars, runnerVars>>

\* The `with` block is left
Release(u) ==
    /\ users[u].pc = "access"
    /\ lock = u
    /\ lock' = Nobody
    /\ users' = [users EXCEPT ![u] = Resting]
    /\ UNCHANGED <<pureVars, schedulerVars, browserVars, detectorVars, checkVars, runnerVars>>

\* A request thread calls add, update, remove or refresh
ApiCall(u, op) ==
    /\ u \in ApiThreads
    /\ users[u].pc = "idle"
    /\ users' = [users EXCEPT ![u] = [op |-> op, pc |-> "wait"]]
    /\ UNCHANGED <<lock, pureVars, schedulerVars, browserVars, detectorVars, checkVars, runnerVars>>

\* get_schedules: return self.schedules, and the caller serialises the list
GetSchedulesStep(u) ==
    /\ u \in ApiThreads
    /\ users[u].pc = "idle"
    /\ users' = [users EXCEPT ![u] = [op |-> "get_schedules", pc |-> "access"]]
    /\ UNCHANGED <<lock, pureVars, schedulerVars, browserVars, detectorVars, checkVars, runnerVars>>

\* The caller of get_schedules is done with the list
GetSchedulesDone(u) ==
    /\ users[u] = [op |-> "get_schedules", pc |-> "access"]
    /\ users' = [users EXCEPT ![u] = Resting]
    /\ UNCHANGED <<lock, pureVars, schedulerVars, browserVars, detectorVars, checkVars, runnerVars>>

\* The runner loop calls _check_schedules, which takes the lock
PassBegins ==
    /\ users[Runner].pc = "idle"
    /\ users' = [users EXCEPT ![Runner] = [op |-> "_check_schedules", pc |-> "wait"]]
    /\ UNCHANGED <<lock, pureVars, schedulerVars, browserVars, detectorVars, checkVars, runnerVars>>

\* _perform_check inside the pass starts the check thread, which reads
\* schedule['id'], schedule['url'] and the other fields of its record
CheckThreadStarts ==
    /\ users[Runner].pc = "access"
    /\ lock = Runner
    /\ users[Worker].pc = "idle"
    /\ users' = [users EXCEPT ![Worker] =
                    [op |-> "_run_browser_check_task", pc |-> "access"]]
    /\ UNCHANGED <<lock, pureVars, schedulerVars, browserVars, detectorVars, checkVars, runnerVars>>

\* The check thread has made its start_browser call and polls
CheckThreadPolls ==
    /\ users[Worker] = [op |-> "_run_browser_check_task", pc |-> "access"]
    /\ lock # Worker
    /\ users' = [users EXCEPT ![Worker].pc = "poll"]
    /\ UNCHANGED <<lock, pureVars, schedulerVars, browserVars, detectorVars, checkVars, runnerVars>>

\* The check thread saw a download: it goes for the lock to mark the schedule
CheckThreadMarks ==
    /\ users[Worker].pc = "poll"
    /\ users' = [users EXCEPT ![Worker].pc = "wait"]
    /\ UNCHANGED <<lock, pureVars, schedulerVars, browserVars, detectorVars, checkVars, runnerVars>>

\* The check thread returns without a download
CheckThreadReturns ==
    /\ users[Worker].pc = "poll"
    /\ users' = [users EXCEPT ![Worker] = Resting]
    /\ UNCHANGED <<lock, pureVars, schedulerVars, browserVars, detectorVars, checkVars, runnerVars>>

get_schedules ==
    \E u \in ApiThreads : GetSchedulesStep(u) \/ GetSchedulesDone(u)

NextStore ==
    \/ \E u \in StoreUsers : Acquire(u) \/ Release(u)
    \/ \E u \in ApiThreads, op \in LockedOps : ApiCall(u, op)
    \/ get_schedules
    \/ PassBegins
    \/ CheckThreadStarts
    \/ CheckThreadPolls
    \/ CheckThreadMarks
    \/ CheckThreadReturns

SpecStore == Init /\ [][NextStore]_vars

\* A thread inside a `with self.lock:` block runs on and leaves it, and a
\* thread blocked on the lock gets it once it has been free often enough
SpecStoreLive ==
    /\ SpecStore
    /\ \A u \in StoreUsers : WF_vars(Release(u))
    /\ \A u \in StoreUsers : SF_vars(Acquire(u))

----------------------------------------------------------------------------
(* _run_browser_check_task with the DownloadService it polls.  An entry of *)
(* download_queue is "running" until it has completed_at, then "succeeded" *)
(* or "failed" as its success field says.                                  *)

\* start_browser returned (True, detector): the wait loop begins
CheckBegins(c) ==
    /\ checks[c].pc = "idle"
    /\ checks' = [checks EXCEPT ![c].pc = "poll"]
    /\ UNCHANGED <<download_queue, download_threads,
                   pureVars, schedulerVars, browserVars, detectorVars, storeVars, runnerVars>>

\* The detector found a stream and called start_download, which starts the
\* _process_download thread
start_download(c) ==
    /\ checks[c].pc = "poll"
    /\ download_threads[c] = "none"
    /\ download_threads' = [download_threads EXCEPT ![c] = "starting"]
    /\ UNCHANGED <<checks, download_queue,
                   pureVars, schedulerVars, browserVars, detectorVars, storeVars, runnerVars>>

\* _start_ffmpeg_process raised: no entry is made
FfmpegStartRaises(c) ==
    /\ download_threads[c] = "starting"
    /\ download_threads' = [download_threads EXCEPT ![c] = "ended"]
    /\ UNCHANGED <<checks, download_queue,
                   pureVars, schedulerVars, browserVars, detectorVars, storeVars, runnerVars>>

\* self.download_queue[browser_id] = {...}, then process.communicate()
FfmpegRuns(c) ==
    /\ download_threads[c] = "starting"
    /\ download_threads' = [download_threads EXCEPT ![c] = "communicate"]
    /\ download_queue' = [download_queue EXCEPT ![c] = "running"]
    /\ UNCHANGED <<checks, pureVars, schedulerVars, browserVars, detectorVars, storeVars,
                   runnerVars>>

\* FFmpeg exited: completed_at and success = (returncode == 0) are stored
FfmpegExits(c) ==
    /\ download_threads[c] = "communicate"
    /\ download_threads' = [download_threads EXCEPT ![c] = "ended"]
    /\ \E returncode_zero \in BOOLEAN :
          download_queue' = [download_queue EXCEPT ![c] =
              IF returncode_zero THEN "succeeded" ELSE "failed"]
    /\ UNCHANGED <<checks, pureVars, schedulerVars, browserVars, detectorVars, storeVars,
                   runnerVars>>

_process_download ==
    \E c \in CheckIds : FfmpegStartRaises(c) \/ FfmpegRuns(c) \/ FfmpegExits(c)

\* get_download_status: a record when the id is in download_queue, else None
get_download_status(c) == download_queue[c] # "absent"

\* One turn of the wait loop: dl_status is truthy, the schedule is marked
PollSeesDownload(c) ==
    /\ checks[c].pc = "poll"
    /\ get_download_status(c)
    /\ checks' = [checks EXCEPT ![c] =
           [pc |-> "returned", polls |-> checks[c].polls,
            status |-> "download_started", seen |-> download_queue[c]]]
    /\ UNCHANGED <<download_queue, download_threads,
                   pureVars, schedulerVars, browserVars, detectorVars, storeVars, runnerVars>>

\* One turn of the wait loop: dl_status is None, sleep and go on
PollSeesNothing(c) ==
    /\ checks[c].pc = "poll"
    /\ ~get_download_status(c)
    /\ checks[c].polls < MaxPolls
    /\ checks' = [checks EXCEPT ![c].polls = @ + 1]
    /\ UNCHANGED <<download_queue, download_threads,
                   pureVars, schedulerVars, browserVars, detectorVars, storeVars, runnerVars>>

\* The duration is over or the session is gone: close and return
CheckRunsOut(c) ==
    /\ checks[c].pc = "poll"
    /\ checks' = [checks EXCEPT ![c].pc = "returned"]
    /\ UNCHANGED <<download_queue, download_threads,
                   pureVars, schedulerVars, browserVars, detectorVars, storeVars, runnerVars>>

NextCheck ==
    \/ \E c \in CheckIds : CheckBegins(c)
    \/ \E c \in CheckIds : start_download(c)
    \/ _process_download
    \/ \E c \in CheckIds : PollSeesDownload(c)
    \/ \E c \in CheckIds : PollSeesNothing(c)
    \/ \E c \in CheckIds : CheckRunsOut(c)

SpecCheck == Init /\ [][NextCheck]_vars

----------------------------------------------------------------------------
(* start, stop and _run_loop.  The thread is at "test" before the test of  *)
(* `while self.running`, at "pass" inside _check_schedules, at "wait"      *)
(* before the test of `if not self.running` in the wait loop, at "sleep"   *)
(* inside time.sleep(1).                                                   *)

\* start(): nothing when running, else the flag is set and the thread started;
\* stop() has joined the thread of an earlier start
start ==
    /\ ~running
    /\ thread \in {"none", "ended"}
    /\ running' = TRUE
    /\ thread' = "test"
    /\ waited' = 0
    /\ stopped' = NotStopped
    /\ UNCHANGED <<previous, pureVars, schedulerVars, browserVars, detectorVars, storeVars, checkVars>>

\* stop(): self.running = False
stop ==
    /\ running
    /\ running' = FALSE
    /\ stopped' = [at |-> thread, sleeps |-> 0]
    /\ UNCHANGED <<thread, waited, previous,
                   pureVars, schedulerVars, browserVars, detectorVars, storeVars, checkVars>>

\* while self.running: self._check_schedules()
LoopTest ==
    /\ thread = "test"
    /\ thread' = IF running THEN "pass" ELSE "ended"
    /\ UNCHANGED <<running, waited, stopped, previous,
                   pureVars, schedulerVars, browserVars, detectorVars, storeVars, checkVars>>

\* _check_schedules returns or raises: the wait loop begins
PassEnds ==
    /\ thread = "pass"
    /\ thread' = "wait"
    /\ waited' = 0
    /\ UNCHANGED <<running, stopped, previous,
                   pureVars, schedulerVars, browserVars, detectorVars, storeVars, checkVars>>

\* A wait loop that sleeps its thirty turns without a look at the flag
WaitIgnoresFlag ==
    /\ thread = "wait"
    /\ thread' = IF waited = WaitTurns THEN "test" ELSE "sleep"
    /\ UNCHANGED <<running, waited, stopped, previous,
                   pureVars, schedulerVars, browserVars, detectorVars, storeVars, checkVars>>

\* for _ in range(30): if not self.running: break; time.sleep(1)
WaitTest ==
    /\ thread = "wait"
    /\ thread' = IF waited = WaitTurns \/ ~running THEN "test" ELSE "sleep"
    /\ UNCHANGED <<running, waited, stopped, previous,
                   pureVars, schedulerVars, browserVars, detectorVars, storeVars, checkVars>>

\* time.sleep(1) returns
SleepEnds ==
    /\ thread = "sleep"
    /\ thread' = "wait"
    /\ waited' = waited + 1
    /\ stopped' = IF running \/ stopped.sleeps = MaxSleepsCounted THEN stopped
                  ELSE [stopped EXCEPT !.sleeps = @ + 1]
    /\ UNCHANGED <<running, previous,
                   pureVars, schedulerVars, browserVars, detectorVars, storeVars, checkVars>>

_run_loop == LoopTest \/ PassEnds \/ WaitTest \/ SleepEnds

NextRunner == start \/ stop \/ _run_loop

\* The runner thread is scheduled as long as it has a step to take
SpecRunner == Init /\ [][NextRunner]_vars /\ WF_vars(_run_loop)

\* stop() waits for the thread with join(timeout=2) and returns whether or not
\* the thread has ended; a thread inside _check_schedules may take longer.
\* start() after such a stop(): the flag is clear, so it is set again and a
\* new thread started, and self.thread no longer names the earlier one
StartAfterJoinTimedOut ==
    /\ ~running
    /\ thread = "pass"
    /\ previous \in {"none", "ended"}
    /\ running' = TRUE
    /\ previous' = thread
    /\ thread' = "test"
    /\ waited' = 0
    /\ stopped' = NotStopped
    /\ UNCHANGED <<pureVars, schedulerVars, browserVars, detectorVars, storeVars, checkVars>>

\* The steps of _run_loop in the earlier thread; the turns of its wait loop
\* are not counted
PreviousRunLoop ==
    /\ previous \in {"test", "pass", "wait", "sleep"}
    /\ previous' \in
          CASE previous = "test" -> IF running THEN {"pass"} ELSE {"ended"}
            [] previous = "pass" -> {"wait"}
            [] previous = "wait" -> IF running THEN {"sleep", "test"} ELSE {"test"}
            [] previous = "sleep" -> {"wait"}
    /\ UNCHANGED <<running, thread, waited, stopped,
                   pureVars, schedulerVars, browserVars, detectorVars, storeVars, checkVars>>

NextRestart == NextRunner \/ StartAfterJoinTimedOut \/ PreviousRunLoop

SpecRestart == Init /\ [][NextRestart]_vars

----------------------------------------------------------------------------
(* The functions without state: each is called once, with arguments drawn  *)
(* from a bounded set, and returns.                                        *)

InitVideoStream ==
    /\ ProgramInit
    /\ args \in Features
    /\ result = NotReturned

CallIsVideoStream ==
    /\ result = NotReturned
    /\ result' = <<_is_video_stream(args)>>
    /\ UNCHANGED <<args, schedulerVars, browserVars, detectorVars, storeVars,
                   checkVars, runnerVars>>

SpecVideoStream == InitVideoStream /\ [][CallIsVideoStream]_vars

MaxManifestLines == 4

InitParse ==
    /\ ProgramInit
    /\ args \in Manifests(MaxManifestLines)
    /\ result = NotReturned

CallParse ==
    /\ result = NotReturned
    /\ result' = <<parse_master_playlist(args)>>
    /\ UNCHANGED <<args, schedulerVars, browserVars, detectorVars, storeVars,
                   checkVars, runnerVars>>

SpecParse == InitParse /\ [][CallParse]_vars

----------------------------------------------------------------------------
(* StreamMatcherMixin._match_stream.  A variant is the dict the parser     *)
(* builds: resolution is the height of a "WxH" string, framerate the       *)
(* number before the '.', name_height the number before a 'p' in the name  *)
(* and name_fps the number after it; Empty stands for an empty or missing  *)
(* field, Unparseable for a string the conversion does not accept.         *)

Empty == 0

Million == 1000000

HeightTolerance == 10

FpsTolerance == 5

DefaultHeight == 1080

MaxVariants == 3

MaxRawVariants == 2

MaxMbps == 2

Given(field) == field # Empty /\ field # Unparseable

get_resolution_height(res) ==
    IF Given(res.resolution) THEN res.resolution
    ELSE IF res.name_height # Empty THEN res.name_height
    ELSE res.bandwidth \div Million

get_framerate(res) ==
    IF Given(res.framerate) THEN res.framerate
    ELSE IF res.name_fps # Empty THEN res.name_fps
    ELSE 0

\* The key (height, framerate) of a is greater than that of b
QualityAbove(a, b) ==
    \/ get_resolution_height(a) > get_resolution_height(b)
    \/ /\ get_resolution_height(a) = get_resolution_height(b)
       /\ get_framerate(a) > get_framerate(b)

\* sorted(..., reverse=True) is stable: above[i, j] says that the key of the
\* i-th element is greater than that of the j-th, and elements of equal key
\* keep their order
StableSortDesc(seq, above) ==
    LET n == Len(seq)
        rank(i) == 1 + Cardinality({j \in 1..n :
                          \/ above[j, i]
                          \/ ~above[i, j] /\ j < i})
    IN  [k \in 1..n |-> seq[CHOOSE i \in 1..n : rank(i) = k]]

\* The order of a list by (height, framerate)
ByQuality(seq) ==
    [i \in 1..Len(seq), j \in 1..Len(seq) |-> QualityAbove(seq[i], seq[j])]

Abs(x) == IF x < 0 THEN -x ELSE x

\* int(target_res_str) of the preference with its 'p' removed, 1080 when that
\* is no number
TargetHeight(resolution) ==
    CASE resolution = "720p" -> 720
      [] resolution = "1080p" -> 1080
      [] resolution = "1440p" -> 1440
      [] OTHER -> DefaultHeight

TargetFps(framerate) ==
    CASE framerate = "60" -> 60
      [] framerate = "30" -> 30
      [] OTHER -> None

\* A matcher that looks for the requested frame rate before the height
MatchFramerateFirst(resolutions, resolution, framerate) ==
    LET sorted_streams ==
            StableSortDesc(resolutions, ByQuality(resolutions))
        fps_candidates ==
            SelectSeq(sorted_streams, LAMBDA res :
                Abs(get_framerate(res) - TargetFps(framerate)) < FpsTolerance)
    IN  IF resolutions = << >> THEN << >>
        ELSE IF TargetFps(framerate) # None /\ fps_candidates # << >>
             THEN <<fps_candidates[1]>>
        ELSE <<sorted_streams[1]>>

\* A matcher that always takes the variant of highest quality
MatchHighestAvailable(resolutions, resolution, framerate) ==
    LET sorted_streams ==
            StableSortDesc(resolutions, ByQuality(resolutions))
    IN  IF resolutions = << >> THEN << >> ELSE <<sorted_streams[1]>>

\* A matcher that takes the head of the list it is given
MatchHeadOfList(resolutions, resolution, framerate) ==
    IF resolutions = << >> THEN << >> ELSE <<resolutions[1]>>

\* A matcher without the last rule: nothing at or below the target gives None
MatchWithoutFallback(resolutions, resolution, framerate) ==
    LET at_or_below ==
            SelectSeq(resolutions, LAMBDA res :
                get_resolution_height(res)
                    < TargetHeight(resolution) + HeightTolerance)
    IN  IF resolution = "source" \/ at_or_below = << >> THEN << >>
        ELSE <<at_or_below[1]>>

\* _match_stream: << >> is None, <<v>> the variant returned
_match_stream(resolutions, resolution, framerate) ==
    LET sorted_streams ==
            StableSortDesc(resolutions, ByQuality(resolutions))
        target_height == TargetHeight(resolution)
        target_fps == TargetFps(framerate)
        perfect_candidates ==
            SelectSeq(sorted_streams, LAMBDA res :
                /\ Abs(get_resolution_height(res) - target_height) < HeightTolerance
                /\ Abs(get_framerate(res) - target_fps) < FpsTolerance)
        res_candidates ==
            SelectSeq(sorted_streams, LAMBDA res :
                Abs(get_resolution_height(res) - target_height) < HeightTolerance)
        best_res ==
            StableSortDesc(res_candidates,
                [i \in 1..Len(res_candidates), j \in 1..Len(res_candidates) |->
                    get_framerate(res_candidates[i])
                        > get_framerate(res_candidates[j])])
        lower_candidates ==
            SelectSeq(sorted_streams, LAMBDA res :
                get_resolution_height(res) < target_height)
    IN  IF resolutions = << >> THEN << >>
        ELSE IF resolution = "source" THEN <<sorted_streams[1]>>
        ELSE IF target_fps # None /\ perfect_candidates # << >>
             THEN <<perfect_candidates[1]>>
        ELSE IF res_candidates # << >> THEN <<best_res[1]>>
        ELSE IF lower_candidates # << >> THEN <<lower_candidates[1]>>
        ELSE <<sorted_streams[1]>>

\* The variants parse_master_playlist builds from tags with RESOLUTION and
\* FRAME-RATE, and the ones whose fields may be empty or unreadable
Heights == {720, 1080, 1088, 1440}

Rates == {30, 60}

Bandwidths(from) == {k * Million : k \in from..MaxMbps}

Variants ==
    [resolution : Heights, framerate : Rates, name_height : {Empty},
     name_fps : {Empty}, bandwidth : Bandwidths(1)]

RawVariants ==
    [resolution : {Empty, Unparseable, 1080}, framerate : {Empty, Unparseable, 60},
     name_height : {Empty, 720}, name_fps : {Empty, 30},
     bandwidth : Bandwidths(0)]

Lists(S, n) == UNION {[1..k -> S] : k \in 0..n}

ResolutionPreferences == {"source", "720p", "1080p", "1440p", "best"}

FrameratePreferences == {"any", "60", "30"}

InitMatch ==
    /\ ProgramInit
    /\ args \in [resolutions : Lists(Variants, MaxVariants),
                 resolution : ResolutionPreferences \ {"best"},
                 framerate : FrameratePreferences]
    /\ result = NotReturned

InitMatchRaw ==
    /\ ProgramInit
    /\ args \in [resolutions : Lists(RawVariants, MaxRawVariants),
                 resolution : ResolutionPreferences,
                 framerate : FrameratePreferences]
    /\ result = NotReturned

CallMatchStream ==
    /\ result = NotReturned
    /\ result' = <<_match_stream(args.resolutions, args.resolution, args.framerate)>>
    /\ UNCHANGED <<args, schedulerVars, browserVars, detectorVars, storeVars,
                   checkVars, runnerVars>>

SpecMatch == InitMatch /\ [][CallMatchStream]_vars

SpecMatchRaw == InitMatchRaw /\ [][CallMatchStream]_vars

----------------------------------------------------------------------------
(* The check thread's call of BrowserService.start_browser.  A call binds  *)
(* its keyword arguments to the parameters of the function; a keyword that *)
(* names no parameter, or a parameter without default that is not given,   *)
(* is a TypeError.                                                         *)

\* def start_browser(self, url, browser_id, resolution='1080p',
\*                   framerate='any', auto_download=False, filename=None)
StartBrowserParameters ==
    {"url", "browser_id", "resolution", "framerate", "auto_download", "filename"}

StartBrowserRequired == {"url", "browser_id"}

\* The keyword arguments _run_browser_check_task passes for its schedule
CheckKeywords(schedule) ==
    [url |-> schedule.url,
     browser_id |-> "sched",
     auto_download |-> TRUE,
     filename |-> "None",
     resolution |-> schedule.resolution,
     framerate |-> schedule.framerate,
     output_format |-> schedule.format]

\* StreamDetector(browser_id, self.config, resolution, framerate,
\*                auto_download, filename): output_format keeps its default
StartBrowserBody(url, res, fps, auto) ==
    [raised |-> "none", url |-> url, resolution |-> res,
     framerate |-> fps, auto_download |-> auto,
     output_format |-> "mp4"]

\* The call with these keyword arguments
start_browser_call(keywords) ==
    IF /\ DOMAIN keywords \subseteq StartBrowserParameters
       /\ StartBrowserRequired \subseteq DOMAIN keywords
    THEN StartBrowserBody(keywords.url, keywords.resolution, keywords.framerate,
                          keywords.auto_download)
    ELSE [raised |-> "TypeError", url |-> "", resolution |-> "", framerate |-> "",
          auto_download |-> FALSE, output_format |-> ""]

\* The fields of a schedule record the check thread reads
CheckedSchedules ==
    [url : {"https://a.example/live", "https://b.example/live"},
     resolution : ResolutionPreferences,
     framerate : FrameratePreferences,
     format : {"mp4", "mkv", "mp3"}]

InitStartCall ==
    /\ ProgramInit
    /\ args \in CheckedSchedules
    /\ result = NotReturned

CallStartBrowser ==
    /\ result = NotReturned
    /\ result' = <<start_browser_call(CheckKeywords(args))>>
    /\ UNCHANGED <<args, schedulerVars, browserVars, detectorVars, storeVars,
                   checkVars, runnerVars>>

SpecStartCall == InitStartCall /\ [][CallStartBrowser]_vars

----------------------------------------------------------------------------
(* Properties of the Schedule Engine.                                      *)

\* The minute of the day an "HH:MM" string names
MinuteOfDay(hhmm) == (hhmm \div 100) * MinutesPerHour + (hhmm % 100)

\* The window the specification gives a midnight-spanning daily schedule at t
SpecSpanningWindow(s, t) ==
    LET today == t \div DayLen IN
    IF t % DayLen < MinuteOfDay(s.start_time)
    THEN [start_dt |-> (today - 1) * DayLen + MinuteOfDay(s.start_time),
          end_dt   |-> today * DayLen + MinuteOfDay(s.end_time)]
    ELSE [start_dt |-> today * DayLen + MinuteOfDay(s.start_time),
          end_dt   |-> (today + 1) * DayLen + MinuteOfDay(s.end_time)]

\* The window the specification gives a daily schedule at t
SpecDailyWindow(s, t) ==
    IF MinuteOfDay(s.end_time) < MinuteOfDay(s.start_time)
    THEN SpecSpanningWindow(s, t)
    ELSE [start_dt |-> (t \div DayLen) * DayLen + MinuteOfDay(s.start_time),
          end_dt   |-> (t \div DayLen) * DayLen + MinuteOfDay(s.end_time)]

SpecWindow(s, t) ==
    IF s.daily THEN SpecDailyWindow(s, t)
    ELSE [start_dt |-> s.start_time, end_dt |-> s.end_time]

Inside(w, t) == w.start_dt <= t /\ t <= w.end_dt

\* Schedule i gets a check thread in this step
SpawnsFor(i) ==
    \E w \in workers' \ workers : w.sid = schedules[i].id /\ w.born = clock

\* C1 (as claimed): a window occurrence of a schedule never gets a second check
\* thread from the runner's passes.
C1_OneWorkerPerWindow ==
    \A id \in Ids : spawnInfo[id].n <= 1

\* C1 (amended): a pass starts a check thread for a schedule exactly when the
\* pass's now lies in the schedule's window, no download has started, and the
\* schedule is pending, has no next_check, or has reached its next_check; so a
\* window gets its first thread at the first pass inside it and a further one
\* whenever next_check is reached.
C1_WorkerPerDueCheck ==
    [][_check_schedules =>
        \A i \in 1..Len(schedules) :
            LET s == schedules[i] IN
            SpawnsFor(i) <=>
                /\ Inside(SpecWindow(s, clock), clock)
                /\ s.status \in {"pending", "active"}
                /\ \/ s.status = "pending"
                   \/ s.next_check = None
                   \/ clock >= s.next_check]_vars

C1_Witness ==
    \E id \in Ids : spawnInfo[id].n >= 2

\* C2 (as claimed): a window occurrence of a schedule never sees a second
\* status change into download_started.
C2_OneDownloadStartedPerWindow ==
    \A id \in Ids : dlInfo[id].n <= 1

\* C5 (as claimed): a pass leaves a midnight-spanning daily schedule that was
\* pending or active with status active exactly when the pass's now lies in the
\* window anchored as the specification says.
C5_SpanningWindowActive ==
    [][_check_schedules =>
        \A i \in 1..Len(schedules) :
            LET s == schedules[i] IN
            (/\ s.daily
             /\ MinuteOfDay(s.end_time) < MinuteOfDay(s.start_time)
             /\ s.status \in {"pending", "active"})
            => (schedules'[i].status = "active"
                    <=> Inside(SpecSpanningWindow(s, clock), clock))]_vars

\* The part of C5 the code keeps: the same for a schedule that was pending.
SpanningWindowPending ==
    [][_check_schedules =>
        \A i \in 1..Len(schedules) :
            LET s == schedules[i] IN
            (/\ s.daily
             /\ MinuteOfDay(s.end_time) < MinuteOfDay(s.start_time)
             /\ s.status = "pending")
            => (schedules'[i].status = "active"
                    <=> Inside(SpecSpanningWindow(s, clock), clock))]_vars

\* C8 (as claimed): a schedule whose status is download_started has no
\* next_check.
C8_DownloadStartedHasNoNextCheck ==
    \A i \in 1..Len(schedules) :
        schedules[i].status = "download_started" => schedules[i].next_check = None

\* The start of the first window of a daily schedule that opens after t
SpecNextDailyStart(s, t) ==
    IF t % DayLen < MinuteOfDay(s.start_time)
    THEN (t \div DayLen) * DayLen + MinuteOfDay(s.start_time)
    ELSE (t \div DayLen + 1) * DayLen + MinuteOfDay(s.start_time)

\* At t the schedule is outside its window and a later window will open
WindowAhead(s, t) ==
    /\ ~Inside(SpecWindow(s, t), t)
    /\ s.daily \/ t < s.start_time

NextWindowStart(s, t) ==
    IF s.daily THEN SpecNextDailyStart(s, t) ELSE s.start_time

\* add_schedule at a time before the schedule's window leaves the new record
\* pending with next_check at the start of the window.
AddedBeforeWindow ==
    [][add_schedule =>
        LET s == schedules'[Len(schedules')] IN
        WindowAhead(s, clock)
            => s.status = "pending" /\ s.next_check = NextWindowStart(s, clock)]_vars

\* After a pass, a schedule whose next window has not opened is pending with
\* next_check at the start of that window.
PendingAfterPass ==
    [][_check_schedules =>
        \A i \in 1..Len(schedules) :
            LET s == schedules'[i] IN
            (WindowAhead(schedules[i], clock) /\ WindowAhead(s, clock'))
                => s.status = "pending" /\ s.next_check = NextWindowStart(s, clock')]_vars

\* C6 (as claimed): before a window opens the schedule is pending with
\* next_check at the window start, after add_schedule and after every pass.
C6_PendingBeforeWindow == AddedBeforeWindow /\ PendingAfterPass

\* C7: an active schedule inside its window has a next_check no later than the
\* window end, and whenever a step computes the next_check of such a schedule at
\* time t it is t + d for a d of 5 to 8 minutes, or the window end when t + d
\* lies beyond it.
C7_ActiveNextCheck ==
    /\ [](\A i \in 1..Len(schedules) :
            LET s == schedules[i] IN
            (s.status = "active" /\ Inside(SpecWindow(s, clock), clock))
                => s.next_check # None /\ s.next_check <= SpecWindow(s, clock).end_dt)
    /\ [][\A i \in 1..Len(schedules') :
            LET s == schedules'[i]
                end_dt == SpecWindow(s, clock').end_dt
            IN  (/\ i <= Len(schedules)
                 /\ schedules[i].id = s.id
                 /\ schedules[i].next_check # s.next_check
                 /\ s.status = "active"
                 /\ Inside(SpecWindow(s, clock'), clock'))
                => \E d \in 5..8 :
                      s.next_check = IF clock' + d <= end_dt THEN clock' + d ELSE end_dt]_vars

\* An active schedule whose next_check was clamped to the window end, and one
\* whose next_check is a full interval ahead
C7_Witness ==
    \E i \in 1..Len(schedules) :
        LET s == schedules[i] IN
        /\ s.status = "active"
        /\ Inside(SpecWindow(s, clock), clock)
        /\ s.next_check = SpecWindow(s, clock).end_dt
        /\ s.next_check < clock + 5

\* C9 (as claimed): a pass that finds a daily schedule's window passed leaves
\* the schedule pending with next_check at the start of the next window,
\* whatever its status was.
C9_DailyRearmed ==
    [][_check_schedules =>
        \A i \in 1..Len(schedules) :
            LET s == schedules[i] IN
            (/\ s.daily
             /\ clock > SpecWindow(s, clock).end_dt
             /\ clock' > SpecWindow(s, clock').end_dt)
            => /\ schedules'[i].status = "pending"
               /\ schedules'[i].next_check = SpecNextDailyStart(s, clock')]_vars

\* The part of C9 the code keeps: the same for a schedule that was
\* download_started.
DailyRearmedAfterDownload ==
    [][_check_schedules =>
        \A i \in 1..Len(schedules) :
            LET s == schedules[i] IN
            (/\ s.daily
             /\ s.status = "download_started"
             /\ clock > SpecWindow(s, clock).end_dt
             /\ clock' > SpecWindow(s, clock').end_dt)
            => /\ schedules'[i].status = "pending"
               /\ schedules'[i].next_check = SpecNextDailyStart(s, clock')]_vars

\* C10: a pass at a time after the end of a repeating absolute schedule's window
\* moves start_time and end_time by 7 days each, leaves the schedule pending,
\* and sets next_check to the new start when that lies ahead; a pass at any
\* other time leaves start_time and end_time as they are.
C10_WeeklyShift ==
    [][_check_schedules =>
        \A i \in 1..Len(schedules) :
            LET s == schedules[i]
                n == schedules'[i]
            IN  (~s.daily /\ s.repeat) =>
                IF clock > s.end_time
                THEN /\ n.start_time = s.start_time + 7 * DayLen
                     /\ n.end_time = s.end_time + 7 * DayLen
                     /\ n.status = "pending"
                     /\ (clock' < n.start_time => n.next_check = n.start_time)
                ELSE n.start_time = s.start_time /\ n.end_time = s.end_time]_vars

C10_Witness ==
    \E i \in 1..Len(schedules) :
        LET s == schedules[i] IN
        /\ ~s.daily /\ s.repeat
        /\ s.start_time >= 7 * DayLen
        /\ s.status = "pending"
        /\ s.next_check = s.start_time

\* C3 (as claimed): in every reachable state at most one browser session
\* exists, registered in active_browsers or with a running browser.
C3_OneBrowserSession == Cardinality(active_browsers \cup live) <= 1

\* C4 (as claimed): in one detection session _handle_stream_detection is
\* called at most once and the download callback at most once.
C4_OnePipeline == pipelines <= 1 /\ downloader_calls <= 1

\* The one-time absolute schedules whose window passed and whose status is
\* none of st
OneTimePassed(st) ==
    {i \in 1..Len(schedules) :
        /\ ~schedules[i].daily /\ ~schedules[i].repeat
        /\ clock > schedules[i].end_time
        /\ schedules[i].status \notin st}

\* A pass starts no check for a one-time schedule whose window passed
NoCheckAfterEnd ==
    [][_check_schedules =>
        \A i \in 1..Len(schedules) :
            (~schedules[i].daily /\ ~schedules[i].repeat
                /\ clock > schedules[i].end_time) => ~SpawnsFor(i)]_vars

C12_StoreAccessUnderLock ==
    \A u \in StoreUsers : users[u].pc = "access" => lock = u

\* C13 (as claimed): once a check thread has returned, the browser session it
\* started is neither registered nor running.
C13_SessionTornDown == \A bid \in returned : bid \notin active_browsers \cup live

\* C14 (as claimed): a schedule has status download_started only if, when its
\* check thread set it, the download of the thread's own session was running or
\* had succeeded; with no download or a failed one the status stays as it was.
C14_MarkedOnlyForLiveDownload ==
    \A c \in CheckIds :
        checks[c].status = "download_started"
            => checks[c].seen \in {"running", "succeeded"}

\* C15: a check thread whose session start fails leaves every schedule record
\* as it is, and a pass at or after next_check, inside the window, of a schedule
\* that is active starts another check thread for it.
C15_StartFailureLosesOneTrigger ==
    /\ [][(\E w \in workers : WorkerStartFails(w)) => schedules' = schedules]_vars
    /\ [][_check_schedules =>
            \A i \in 1..Len(schedules) :
                LET s == schedules[i] IN
                (/\ s.status = "active"
                 /\ Inside(SpecWindow(s, clock), clock)
                 /\ s.next_check # None
                 /\ clock >= s.next_check) => SpawnsFor(i)]_vars

\* A window in which a check thread failed to start its session and a later
\* pass started another check
C15_Witness ==
    \E id \in Ids : startFailed[id] >= 1 /\ spawnInfo[id].n > startFailed[id]

C17_EveryPausedRequestContinued ==
    \A r \in RequestIds : requests[r] # "dropped"

\* C18 (as claimed): an accepted event whose url and mimeType equal those of a
\* recorded stream event is a duplicate and is not appended again, so no two
\* entries of detected_streams agree in url and mime_type.
C18_OneEntryPerUrlAndMimeType ==
    \A i, j \in 1..Len(detected_streams) :
        (/\ detected_streams[i].url = detected_streams[j].url
         /\ detected_streams[i].mime_type = detected_streams[j].mime_type) => i = j

\* The thread src accepts a Network.responseReceived event and hands it to
\* _add_detected_stream
Delivers(src) == IF src = "ws" THEN _handle_network_event ELSE _monitor_network

CanDeliver(src) ==
    IF src = "ws" THEN ENABLED _handle_network_event ELSE ENABLED _monitor_network

\* C19: the listener and the poller are independent.  While the session runs,
\* a thread that runs and is between two events can deliver an accepted event
\* whatever became of the other thread; and an event one thread delivers while
\* the other is absent or has stopped is recorded (appended, or found recorded
\* with the same timestamp), and an appended one is dispatched to the pipeline
\* when neither flag is set.
C19_SourcesIndependent ==
    /\ [](\A src \in Sources :
            (/\ is_running
             /\ threads[src] = "running"
             /\ sources[src].pc = "idle"
             /\ Len(detected_streams) < MaxEvents) => CanDeliver(src))
    /\ [][\A src \in Sources :
            (Delivers(src) /\ threads[Other(src)] # "running") =>
               /\ \/ Len(detected_streams') = Len(detected_streams) + 1
                  \/ \E i \in 1..Len(detected_streams) :
                        detected_streams[i].timestamp = time'
               /\ (/\ Len(detected_streams') = Len(detected_streams) + 1
                   /\ ~download_started
                   /\ ~awaiting_resolution_selection) =>
                      (/\ sources'[src].pc = "pipeline"
                       /\ pipelines' = pipelines + 1)]_vars

\* A thread is in the pipeline for an event it accepted after the other
\* thread had stopped
C19_Witness ==
    \E src \in Sources :
        /\ is_running
        /\ sources[src].pc = "pipeline"
        /\ sources[src].alone
        /\ threads[Other(src)] = "stopped"

\* The manifests that could not be fetched, or not parsed into resolutions
FailedManifest == {"fetch_failed", "unparsed", "bad_bandwidth"}

\* C20 (as claimed): when the manifest of an event cannot be fetched or parsed,
\* no exception leaves the detection pipeline, and the session has a single
\* unparsed-stream entry.
C20_ManifestFailureYieldsUnparsedEntry ==
    (outcome # NoOutcome /\ outcome.kind \in FailedManifest) =>
        (/\ outcome.exception \notin {"NameError", "AttributeError", "ValueError"}
         /\ available_resolutions = 1)

\* C21 (as claimed): when a store operation releases the lock, the persisted
\* JSON array equals the in-memory schedule list, also when the operation ended
\* with an error.
C21_PersistedEqualsMemory == persisted = schedules

\* The decision list of the specification, read with "unless" as falling
\* through to the next rule
DecisionListFallsThrough(f) ==
    IF f.segment THEN FALSE
    ELSE IF f.usher /\ f.m3u8 THEN TRUE
    ELSE IF (f.ext_m3u8 \/ f.ext_mpd \/ f.mime) /\ ~f.ad THEN TRUE
    ELSE IF f.playlist /\ f.m3u8 THEN TRUE
    ELSE FALSE

\* The same list, read with "unless" as rejecting
DecisionListRejects(f) ==
    IF f.segment THEN FALSE
    ELSE IF f.usher /\ f.m3u8 THEN TRUE
    ELSE IF f.ext_m3u8 \/ f.ext_mpd \/ f.mime THEN ~f.ad
    ELSE IF f.playlist /\ f.m3u8 THEN TRUE
    ELSE FALSE

\* C22 (as claimed): _is_video_stream returns what the ordered decision list
\* gives for every combination of url and mime features: segment urls are
\* rejected first, then the provider pattern is accepted, then a playlist
\* extension or playlist mime type unless the url has an ad keyword, then a url
\* with playlist and .m3u8, and everything else is rejected.  The list is
\* taken in either of its two readings.
C22_VideoStreamDecisionList ==
    result # NotReturned =>
        \/ result[1] = DecisionListFallsThrough(args)
        \/ result[1] = DecisionListRejects(args)

\* The #EXT-X-STREAM-INF blocks of a manifest: the tag lines that a uri line
\* follows
StreamInfBlocks(content) ==
    {i \in 1..Len(content) :
        /\ content[i].kind = "inf"
        /\ i + 1 <= Len(content)
        /\ content[i + 1].kind = "uri"}

\* C23 (as claimed): parse_master_playlist on a manifest with N
\* #EXT-X-STREAM-INF blocks returns exactly N variants, in strictly descending
\* order of bandwidth.
C23_ParseGivesAllVariantsDescending ==
    result # NotReturned =>
        /\ ~result[1].raised
        /\ Len(result[1].resolutions) = Cardinality(StreamInfBlocks(args))
        /\ \A i, j \in 1..Len(result[1].resolutions) :
              i < j => result[1].resolutions[i].bandwidth
                          > result[1].resolutions[j].bandwidth

\* The variants of a list, and the variant a finished call returned
Elems(seq) == {seq[i] : i \in 1..Len(seq)}

Matched == result # NotReturned /\ result[1] # << >>

HeightMatches(res, resolution) ==
    Abs(get_resolution_height(res) - TargetHeight(resolution)) < HeightTolerance

ExactMatch(res, resolution, framerate) ==
    /\ HeightMatches(res, resolution)
    /\ Abs(get_framerate(res) - TargetFps(framerate)) < FpsTolerance

BandwidthDescending(seq) ==
    \A i, j \in 1..Len(seq) : i < j => seq[i].bandwidth >= seq[j].bandwidth

ExactMatches == {v \in Elems(args.resolutions) :
                    ExactMatch(v, args.resolution, args.framerate)}

\* C24 (as claimed): with a numeric target height and frame-rate preference 60
\* or 30, on a list in bandwidth-descending order that holds a variant within
\* tolerance of both targets, _match_stream returns such a variant, and the one
\* of highest bandwidth among them.
C24_ExactMatchOfHighestBandwidth ==
    (/\ result # NotReturned
     /\ args.resolution # "source"
     /\ TargetFps(args.framerate) # None
     /\ BandwidthDescending(args.resolutions)
     /\ ExactMatches # {})
    => /\ Matched
       /\ result[1][1] \in ExactMatches
       /\ \A v \in ExactMatches : result[1][1].bandwidth >= v.bandwidth

HeightMatchers == {v \in Elems(args.resolutions) :
                      HeightMatches(v, args.resolution)}

LowerVariants == {v \in Elems(args.resolutions) :
                     get_resolution_height(v) < TargetHeight(args.resolution)}

NoExactMatch == TargetFps(args.framerate) = None \/ ExactMatches = {}

\* C25: when no variant matches both the target height and the target frame
\* rate but some variant's height is within tolerance of the target height,
\* _match_stream returns a variant of matching height, one of greatest frame
\* rate among them, never a variant of another height.
C25_ResolutionBeatsFramerate ==
    (/\ result # NotReturned
     /\ args.resolution # "source"
     /\ NoExactMatch
     /\ HeightMatchers # {})
    => /\ Matched
       /\ result[1][1] \in HeightMatchers
       /\ \A v \in HeightMatchers :
              get_framerate(result[1][1]) >= get_framerate(v)

\* {1080p30, 720p60} with target 1080/60 has given 1080p30
C25_Witness ==
    /\ Matched
    /\ args.resolution = "1080p" /\ args.framerate = "60"
    /\ Len(args.resolutions) = 2
    /\ \E v, w \in Elems(args.resolutions) :
          /\ v.resolution = 1080 /\ v.framerate = 30
          /\ w.resolution = 720 /\ w.framerate = 60
          /\ result[1][1] = v

\* C26: when no variant's height is within tolerance of the target height and
\* some variant's height is strictly below the target, _match_stream returns
\* a variant strictly below the target whose (height, frame rate) no other
\* variant below the target exceeds.
C26_HighestOfTheLower ==
    (/\ result # NotReturned
     /\ args.resolution # "source"
     /\ HeightMatchers = {}
     /\ LowerVariants # {})
    => /\ Matched
       /\ result[1][1] \in LowerVariants
       /\ \A v \in LowerVariants : ~QualityAbove(v, result[1][1])

\* Target 1440 on a list of 1080 and 720 variants has given a 1080 one
C26_Witness ==
    /\ Matched
    /\ args.resolution = "1440p"
    /\ {v.resolution : v \in Elems(args.resolutions)} = {720, 1080}
    /\ result[1][1].resolution = 1080
    /\ \A v \in Elems(args.resolutions) : get_framerate(result[1][1]) >= get_framerate(v)

\* C27: with resolution preference "source" and any frame-rate preference,
\* _match_stream returns a variant whose (height, frame rate) no variant of
\* the list exceeds, in whatever order the list is.
C27_SourceIsLexicographicMaximum ==
    (/\ result # NotReturned
     /\ args.resolution = "source"
     /\ args.resolutions # << >>)
    => /\ Matched
       /\ result[1][1] \in Elems(args.resolutions)
       /\ \A v \in Elems(args.resolutions) : ~QualityAbove(v, result[1][1])

\* "source" on a list whose head has the highest bandwidth but not the
\* greatest height has given a later variant
C27_Witness ==
    /\ Matched
    /\ args.resolution = "source"
    /\ Len(args.resolutions) = MaxVariants
    /\ \A i \in 2..Len(args.resolutions) :
          args.resolutions[1].bandwidth > args.resolutions[i].bandwidth
    /\ QualityAbove(result[1][1], args.resolutions[1])

\* C28: _match_stream returns None only for the empty list; for every
\* non-empty list and every preference, also when resolution, frame rate and
\* name of the variants are empty, missing or unreadable, it returns one of
\* the variants of the list.
C28_MatchIsTotal ==
    result # NotReturned =>
        /\ result[1] = << >> <=> args.resolutions = << >>
        /\ result[1] # << >> => result[1][1] \in Elems(args.resolutions)

\* A list of a variant without any readable field and one above the target
\* has given one of the two
C28_Witness ==
    /\ Matched
    /\ args.resolution = "720p"
    /\ \E v, w \in Elems(args.resolutions) :
          /\ v.resolution = Unparseable /\ v.framerate = Unparseable
          /\ v.name_height = Empty /\ v.name_fps = Empty /\ v.bandwidth = 2 * Million
          /\ w.resolution = 1080 /\ w.framerate = Empty
    /\ result[1][1] \in Elems(args.resolutions)

\* The check threads a step starts, and the schedules that have a check
\* thread which has not returned
Started == {w \in workers' \ workers : w.pc = "start"}

Checking == {w.sid : w \in workers}

\* C29 (as claimed): the runner never starts a check thread for a schedule
\* while a check thread started earlier for that schedule has not returned.
C29_NoSecondWorkerWhileOneRuns ==
    [][\A w \in Started : w.sid \notin Checking]_vars

\* C30 (as claimed): a download started by a check thread's session is seen
\* by that thread and recorded as download_started before the thread
\* returns, also when its wait runs out or its session is closed.
C30_StartedDownloadIsRecorded ==
    \A c \in CheckIds :
        (checks[c].pc = "returned" /\ download_queue[c] \in {"running", "succeeded"})
            => checks[c].status = "download_started"

\* The window, at the time a pass reads, of the schedule a check thread is for
WindowOfCheck(w) == WindowAt(schedules[FirstWithId(w.sid)], clock)

\* C31 (as claimed): a check thread is started for a schedule only by a pass
\* whose time t has windowStart <= t < windowEnd for the schedule's window.
C31_SpawnOnlyInsideHalfOpenWindow ==
    [][\A w \in Started :
          /\ FirstWithId(w.sid) # 0
          /\ WindowOfCheck(w).start_dt <= clock
          /\ clock < WindowOfCheck(w).end_dt]_vars

\* The same with the end of the window included
C31_SpawnOnlyInsideClosedWindow ==
    [][\A w \in Started :
          /\ FirstWithId(w.sid) # 0
          /\ WindowOfCheck(w).start_dt <= clock
          /\ clock <= WindowOfCheck(w).end_dt]_vars

\* The positions of a thread that is inside the loop of _run_loop
InLoop == {"pass", "wait", "sleep"}

\* C32 (as claimed): across start() and stop() calls at most one runner
\* thread is in the loop that evaluates the schedules; a start() after a
\* stop() does not leave the earlier thread in its loop next to the new one.
C32_OneRunnerLoop == ~(thread \in InLoop /\ previous \in InLoop)

\* The thread that holds the lock can leave its `with` block whatever the
\* other threads do, and the check thread holds the lock only inside the
\* block of its status update
NobodyWaitsInsideLock ==
    /\ \A u \in StoreUsers : lock = u => ENABLED Release(u)
    /\ lock = Worker =>
          users[Worker] = [op |-> "_run_browser_check_task", pc |-> "access"]

PipelineEnds(src) == sources[src].pc = "pipeline" /\ sources'[src].pc = "idle"

\* C34 (as claimed): with auto_download the pipeline of an accepted playlist
\* event ends with exactly one call of the download callback, whether the
\* manifest is a master manifest with variants, no master manifest, could not
\* be fetched or could not be parsed.
C34_AutoDownloadPipelineCallsDownloaderOnce ==
    [][\A src \in Sources :
          (PipelineEnds(src) /\ auto_download)
              => downloader_calls' = downloader_calls + 1]_vars

\* The same for the manifests that are fetched and parsed, or are no master
C34_ParsedManifestCallsDownloaderOnce ==
    [][\A src \in Sources :
          (/\ PipelineEnds(src)
           /\ auto_download
           /\ sources[src].kind \in {"master", "single", "fetch_failed"})
              => downloader_calls' = downloader_calls + 1]_vars

\* C35 (as claimed): without auto_download the pipeline of a master manifest
\* that parses to variants ends with awaiting_resolution_selection set and
\* the parsed list in available_resolutions, and without a call of the
\* download callback.
C35_ManualSelectionExposed ==
    [][\A src \in Sources :
          (PipelineEnds(src) /\ ~auto_download /\ sources[src].kind = "master")
              => /\ awaiting_resolution_selection'
                 /\ available_resolutions' > 0
                 /\ downloader_calls' = downloader_calls]_vars

\* Without auto_download no pipeline calls the download callback
C35_NoDownloadWithoutAutoDownload ==
    [][\A src \in Sources :
          (PipelineEnds(src) /\ ~auto_download)
              => downloader_calls' = downloader_calls]_vars

\* The url of the entry a step appends to detected_streams
Recorded == detected_streams'[Len(detected_streams')].url

\* A paused request is passed to _add_detected_stream in this step: its entry
\* is appended, or its pipeline begins
DispatchedFromFetch(r) ==
    /\ requests[r] = "unseen"
    /\ requests'[r] # "unseen"
    /\ Len(detected_streams') = Len(detected_streams) + 1

C37_BandwidthIsTheAttributeValue ==
    (result # NotReturned /\ ~result[1].raised) =>
        \A k \in 1..Len(result[1].resolutions) :
            result[1].resolutions[k].bandwidth
                = args[result[1].resolutions[k].url - 1].bw

\* The same for the lines whose BANDWIDTH is not the first attribute
C37_LaterBandwidthIsTheAttributeValue ==
    (result # NotReturned /\ ~result[1].raised) =>
        \A k \in 1..Len(result[1].resolutions) :
            ~args[result[1].resolutions[k].url - 1].first
                => result[1].resolutions[k].bandwidth
                      = args[result[1].resolutions[k].url - 1].bw

\* C38 (as claimed): the check thread's start_browser call is accepted, and
\* the detector of the session is created with the schedule's url,
\* resolution, frame rate and output format and with auto_download set.
C38_SessionOpenedWithScheduleValues ==
    result # NotReturned =>
        /\ result[1].raised = "none"
        /\ result[1].url = args.url
        /\ result[1].resolution = args.resolution
        /\ result[1].framerate = args.framerate
        /\ result[1].output_format = args.format
        /\ result[1].auto_download

\* The check thread that takes the step, and the records of other ids
Stepping == CHOOSE w \in workers : w \notin workers'

OthersOf(seq, id) == SelectSeq(seq, LAMBDA s : s.id # id)

\* C39: a step of a check thread leaves the store with the same number of
\* records and changes at most a record that is in the store with the thread's
\* schedule id, so a thread whose schedule was removed changes nothing and
\* adds nothing; remove_schedule(id) leaves the records of every other id,
\* and their order, as they were.
C39_WorkerAndRemoveTouchOnlyTheirId ==
    [][/\ _run_browser_check_task =>
            /\ Len(schedules') = Len(schedules)
            /\ \A i \in 1..Len(schedules) :
                  schedules'[i] # schedules[i] =>
                      schedules[i].id = Stepping.sid /\ schedules'[i].id = Stepping.sid
            /\ FirstWithId(Stepping.sid) = 0 =>
                  schedules' = schedules /\ persisted' = persisted
       /\ \A id \in Ids : RemoveStep(id) =>
            /\ OthersOf(schedules', id) = OthersOf(schedules, id)
            /\ Len(schedules') = Len(OthersOf(schedules, id))]_vars

\* The schedule of id 1 was removed and its check thread has come to its end;
\* the records of the other id are in the store, one of them marked by its
\* own check thread
C39_Witness ==
    /\ FirstWithId(1) = 0
    /\ \A w \in workers : w.sid # 1
    /\ Len(schedules) = MaxStored - 1
    /\ schedules[1].status = "download_started"
    /\ schedules[2].status # "download_started"

====
